---- MODULE Spec2Model ----
(***************************************************************************)
(* Model of UtcTracker: the sleep / timezone inference pipeline            *)
(* (core/sleep_detector.py), the storage layer it reads and writes         *)
(* (core/storage.py) and the tracker and HTTP handlers that drive it on    *)
(* one asyncio event loop (core/*_tracker.py, web/routes.py, main.py).     *)
(* The rate limiter in front of the routes is web/security.py.             *)
(*                                                                         *)
(* Representation of values                                                *)
(*   timestamp_utc  the ISO-8601 string "YYYY-MM-DDTHH:MM:SSZ" is the      *)
(*                  tuple <<day, hour, minute, second>> of its fields;     *)
(*                  string order is the lexicographic order of the tuple.  *)
(*   datetime       seconds since 00:00:00 of day 0 (what _parse_ts gives).*)
(*   date           the "YYYY-MM-DD" string is the day number.             *)
(*   gap_hours      hundredths of an hour (round(x, 2) * 100).             *)
(*   tz offset      half hours (offset * 2): 6 is +3.0, 5 is +2.5.         *)
(*   time.time()    ticks of half a second.                                *)
(*   URL path       the sequence of its characters.                        *)
(***************************************************************************)
EXTENDS Integers, Sequences, FiniteSets, TLC

VARIABLES
    \* ---- pure pipeline runs (one call of the functions on one input)
    timeline,          \* the timestamps the input events are drawn from
    cursor,            \* how far along the timeline the input has been built
    events,            \* the input list[StatusEvent]
    params,            \* threshold_hours, min_online_seconds, assumed_wakeup_hour, max_interruption_minutes
                       \* of a pipeline call; the tracking configuration of the running program
    phase,             \* "input" while the list is built, "done" after the call,
                       \* "raised" when the call ended with an exception
    merged,            \* result of _merge_sources(events)
    stages,            \* the intermediate lists of _detect_sleep_periods(events, ...)
    sleep_periods,     \* result of _detect_sleep_periods(events, ...)
    daily_timezones,   \* result of _compute_daily_timezones(sleep_periods)
    wakeup_time,       \* the wake-up time given to _calculate_tz_offset alone
    tz_offset,         \* result of _calculate_tz_offset(wakeup_time, assumed_wakeup_hour)
    scan,              \* the locals of _filter_network_noise while its loop is stepped
    \* ---- the running program: database, event loop, handlers
    db_events,         \* events table: the rows in id order (the id is the position)
    db_users,          \* users table: user_id -> status columns and current_tz_offset
    db_sleep,          \* sleep_periods table: user_id -> rows in id order
    db_daily,          \* daily_timezones table: user_id -> rows in id order
    running,           \* the task the event loop is executing, or "none"
    pc,                \* task -> its position inside the handler
    job,               \* task -> the locals of its handler (user, snapshot, results)
    appends,           \* number of append_event calls made so far
    response,          \* the HTTP response just produced, or NoResponse
    \* ---- the rate limiter in front of the HTTP routes (web/security.py)
    limiter,           \* the RateLimitMiddleware object: its settings, request_history
                       \* and last_cleanup
    clock,             \* the last value time.time() returned, in ticks
    served,            \* client ip -> the times of its /api/ requests handed to call_next
    outcome,           \* what became of the request dispatched last
    requests           \* number of /api/ requests dispatched so far

pipeVars == <<timeline, cursor, events, params, phase, merged, stages, sleep_periods, daily_timezones,
              wakeup_time, tz_offset, scan>>
sysVars == <<db_events, db_users, db_sleep, db_daily, running, pc, job, appends, response>>
webVars == <<limiter, clock, served, outcome, requests>>
vars == <<pipeVars, sysVars, webVars>>

-----------------------------------------------------------------------------
(* Bounds of the model *)

\* longest input list given to the pipeline functions
MaxEvents == 5
\* longest list of sleep periods given to _compute_daily_timezones alone
MaxPeriods == 3
\* longest input list given to _merge_sources alone (any order, repeats)
MaxMergeEvents == 4
\* number of append_event calls in one run of the program
MaxAppends == 3
\* number of /api/ requests dispatched through the rate limiter
MaxRequests == 4
\* longest one-source log given to the pipeline in the runs on three offline spans
MaxSpanEvents == 7

-----------------------------------------------------------------------------
(* Program constants *)

\* config_tracking.get("sleep_threshold_hours", 4.0)
DefaultThresholdHours == 4
\* config_tracking.get("min_online_duration_seconds", 30)
DefaultMinOnlineSeconds == 30
\* config_tracking.get("assumed_wakeup_hour", 9)
DefaultAssumedWakeupHour == 9
\* max_interruption_minutes: int = 45
DefaultMaxInterruptionMinutes == 45

-----------------------------------------------------------------------------
(* Timestamps *)

Ts(day, hour, minute, second) == <<day, hour, minute, second>>

\* str.__lt__ / __le__ on two timestamp strings of the fixed wire format
TsLess(a, b) ==
    \E i \in 1..4 : a[i] < b[i] /\ \A j \in 1..(i - 1) : a[j] = b[j]

TsLeq(a, b) == a = b \/ TsLess(a, b)

\* _parse_ts: the naive-UTC datetime, as seconds since day 0
ParseTs(ts) == ts[1] * 86400 + ts[2] * 3600 + ts[3] * 60 + ts[4]

\* datetime.fromisoformat accepts the string: a timestamp whose hour, minute or
\* second field is out of range makes _parse_ts raise ValueError
Parses(ts) == ts[2] \in 0..23 /\ ts[3] \in 0..59 /\ ts[4] \in 0..59

\* datetime.hour, datetime.minute, strftime("%Y-%m-%d")
HourOf(dt) == (dt % 86400) \div 3600
MinuteOf(dt) == (dt % 3600) \div 60
DateOf(dt) == dt \div 86400

-----------------------------------------------------------------------------
(* core/models.py *)

Sources == {"telegram", "discord"}
Statuses == {"online", "offline"}

\* the raw_status_type the trackers attach to a status of a source
RawType(source, status) ==
    IF source = "telegram"
    THEN (IF status = "online" THEN "UserStatusOnline" ELSE "UserStatusOffline")
    ELSE (IF status = "online" THEN "DiscordOnline" ELSE "DiscordOffline")

StatusEvent(ts, status, raw, source) ==
    [timestamp_utc |-> ts, status |-> status, raw_status_type |-> raw, source |-> source]

\* a SleepPeriod built with its two timestamps in each other's place
SleepPeriodSwapped(off_ts, on_ts, gap, tz, date) ==
    [offline_at_utc |-> on_ts, online_at_utc |-> off_ts, gap_hours |-> gap,
     estimated_tz_offset |-> tz, date |-> date]

SleepPeriod(off_ts, on_ts, gap, tz, date) ==
    [offline_at_utc |-> off_ts, online_at_utc |-> on_ts, gap_hours |-> gap,
     estimated_tz_offset |-> tz, date |-> date]

DayTimezone(date, offset, wakeup) ==
    [date |-> date, offset_hours |-> offset, wakeup_utc |-> wakeup]

-----------------------------------------------------------------------------
(* Sequence helpers *)

Last(s) == s[Len(s)]

-----------------------------------------------------------------------------
(* core/sleep_detector.py *)

RECURSIVE InsertByTs(_, _)
\* insert e behind every element whose key is <= its key (stable)
InsertByTs(sorted, e) ==
    IF sorted = <<>> THEN <<e>>
    ELSE IF TsLeq(Head(sorted).timestamp_utc, e.timestamp_utc)
         THEN <<Head(sorted)>> \o InsertByTs(Tail(sorted), e)
         ELSE <<e>> \o sorted

\* the events in the order they were given: the sort left out
UnsortedEvents(evs) == evs

RECURSIVE SortedByTimestamp(_)
\* sorted(events, key=lambda e: e.timestamp_utc): stable, ascending
SortedByTimestamp(evs) ==
    IF evs = <<>> THEN <<>>
    ELSE InsertByTs(SortedByTimestamp(SubSeq(evs, 1, Len(evs) - 1)), Last(evs))

RECURSIVE Dedup(_)
\* _dedup: collapse consecutive events with the same status, keeping the first
Dedup(evs) ==
    IF Len(evs) <= 1 THEN evs
    ELSE LET init == Dedup(SubSeq(evs, 1, Len(evs) - 1))
         IN  IF Last(evs).status # Last(init).status THEN Append(init, Last(evs)) ELSE init

\* all() where the code says any()
AllOnline(source_state) == \A s \in DOMAIN source_state : source_state[s] = "online"

\* any(s == "online" for s in source_state.values())
AnyOnline(source_state) == \E s \in DOMAIN source_state : source_state[s] = "online"

\* the loop body without "if new_combined != combined_status": every event is emitted
MergeStepEmitAlways(st, e) ==
    LET source_state == [s \in (DOMAIN st.source_state) \cup {e.source} |->
                            IF s = e.source THEN e.status ELSE st.source_state[s]]
        new_combined == IF \E s \in DOMAIN source_state : source_state[s] = "online"
                        THEN "online" ELSE "offline"
    IN  [source_state |-> source_state,
         combined_status |-> new_combined,
         result |-> Append(st.result,
                           StatusEvent(e.timestamp_utc, new_combined,
                                       e.raw_status_type, "combined"))]

\* one iteration of the loop of _merge_sources over sorted_events
MergeStep(st, e) ==
    LET source_state == [s \in (DOMAIN st.source_state) \cup {e.source} |->
                            IF s = e.source THEN e.status ELSE st.source_state[s]]
        new_combined == IF AnyOnline(source_state) THEN "online" ELSE "offline"
    IN  IF new_combined # st.combined_status
        THEN [source_state |-> source_state,
              combined_status |-> new_combined,
              result |-> Append(st.result,
                                StatusEvent(e.timestamp_utc, new_combined,
                                            e.raw_status_type, "combined"))]
        ELSE [st EXCEPT !.source_state = source_state]

RECURSIVE MergeLoop(_, _)
MergeLoop(st, evs) ==
    IF evs = <<>> THEN st ELSE MergeLoop(MergeStep(st, Head(evs)), Tail(evs))

\* the loop begun from an online baseline: "combined_status = 'online'"
MergeStartOnline == [source_state |-> <<>>, combined_status |-> "online", result |-> <<>>]

\* the state of the loop before the first event: source_state = {},
\* combined_status = "offline"
MergeStart == [source_state |-> <<>>, combined_status |-> "offline", result |-> <<>>]

\* _merge_sources
MergeSources(evs) ==
    IF evs = <<>> THEN <<>>
    ELSE MergeLoop(MergeStart, SortedByTimestamp(evs)).result

\* the scan with "i += 0" on a blip
ScanAdvanceStuck(blip) == IF blip THEN 0 ELSE 1

\* how far one iteration of the while loop moves i: "i += 2; continue" on a blip,
\* "i += 1" otherwise
ScanAdvance(blip) == IF blip THEN 2 ELSE 1

\* the condition under which the loop skips current and the event behind it
ScanBlip(sorted_events, i, min_online_seconds) ==
    /\ sorted_events[i].status = "online"
    /\ i + 1 <= Len(sorted_events)
    /\ sorted_events[i + 1].status = "offline"
    /\ ParseTs(sorted_events[i + 1].timestamp_utc)
          - ParseTs(sorted_events[i].timestamp_utc) < min_online_seconds

RECURSIVE NoiseLoopDropOnline(_, _, _)
\* the while loop with "i += 1" on a blip: only the short Online is skipped, the
\* Offline behind it is kept
NoiseLoopDropOnline(sorted_events, i, min_online_seconds) ==
    IF i > Len(sorted_events) THEN <<>>
    ELSE LET current == sorted_events[i]
             blip == /\ current.status = "online"
                     /\ i + 1 <= Len(sorted_events)
                     /\ sorted_events[i + 1].status = "offline"
                     /\ ParseTs(sorted_events[i + 1].timestamp_utc)
                          - ParseTs(current.timestamp_utc) < min_online_seconds
         IN  IF blip
             THEN NoiseLoopDropOnline(sorted_events, i + 1, min_online_seconds)
             ELSE <<current>> \o NoiseLoopDropOnline(sorted_events, i + 1, min_online_seconds)

RECURSIVE NoiseLoopInclusive(_, _, _)
\* the while loop with "<=" where the code says "<": an online of exactly
\* min_online_seconds is dropped as well
NoiseLoopInclusive(sorted_events, i, min_online_seconds) ==
    IF i > Len(sorted_events) THEN <<>>
    ELSE LET current == sorted_events[i]
             blip == /\ current.status = "online"
                     /\ i + 1 <= Len(sorted_events)
                     /\ sorted_events[i + 1].status = "offline"
                     /\ ParseTs(sorted_events[i + 1].timestamp_utc)
                          - ParseTs(current.timestamp_utc) <= min_online_seconds
         IN  IF blip
             THEN NoiseLoopInclusive(sorted_events, i + 2, min_online_seconds)
             ELSE <<current>> \o NoiseLoopInclusive(sorted_events, i + 1, min_online_seconds)

RECURSIVE NoiseLoop(_, _, _)
\* the while loop of _filter_network_noise from index i (1-based here)
NoiseLoop(sorted_events, i, min_online_seconds) ==
    IF i > Len(sorted_events) THEN <<>>
    ELSE LET current == sorted_events[i]
             blip == /\ current.status = "online"
                     /\ i + 1 <= Len(sorted_events)
                     /\ sorted_events[i + 1].status = "offline"
                     /\ ParseTs(sorted_events[i + 1].timestamp_utc)
                          - ParseTs(current.timestamp_utc) < min_online_seconds
         IN  IF blip
             THEN NoiseLoop(sorted_events, i + 2, min_online_seconds)
             ELSE <<current>> \o NoiseLoop(sorted_events, i + 1, min_online_seconds)

\* _filter_network_noise
FilterNetworkNoise(evs, min_online_seconds) ==
    IF evs = <<>> THEN <<>>
    ELSE NoiseLoop(MergeSources(evs), 1, min_online_seconds)

\* a rounding that sends a tie to the lower integer
RoundHalfDown(num, den) ==
    LET fl == num \div den
    IN  IF 2 * (num % den) > den THEN fl + 1 ELSE fl

\* round(x) of Python for the rational num/den, den > 0: nearest integer, ties to even
RoundHalfEven(num, den) ==
    LET fl == num \div den
        twice == 2 * (num % den)
    IN  IF twice < den THEN fl
        ELSE IF twice > den THEN fl + 1
        ELSE IF fl % 2 = 0 THEN fl ELSE fl + 1

\* _calculate_tz_offset without the two normalizing branches
CalculateTzOffsetUnnormalized(wakeup_utc, assumed_local_hour) ==
    RoundHalfEven(assumed_local_hour * 60
                      - (HourOf(wakeup_utc) * 60 + MinuteOf(wakeup_utc)), 30)

\* _calculate_tz_offset, in half hours; the float expressions are exact enough that
\* the comparisons and the rounding agree with the rational arithmetic done here
CalculateTzOffset(wakeup_utc, assumed_local_hour) ==
    LET utc_minutes == HourOf(wakeup_utc) * 60 + MinuteOf(wakeup_utc)
        offset == assumed_local_hour * 60 - utc_minutes
        normalized == IF offset < -12 * 60 THEN offset + 24 * 60
                      ELSE IF offset > 14 * 60 THEN offset - 24 * 60
                      ELSE offset
    IN  RoundHalfEven(normalized, 30)


RECURSIVE BitLength(_)
\* number of binary digits of n >= 0
BitLength(n) == IF n = 0 THEN 0 ELSE 1 + BitLength(n \div 2)

RECURSIVE SkipLeadingZeros(_, _)
\* long division r/d, 0 < r < d: the remainder behind the first 1 bit of the quotient
SkipLeadingZeros(r, d) ==
    IF 2 * r >= d THEN 2 * r - d ELSE SkipLeadingZeros(2 * r, d)

RECURSIVE QuotientBits(_, _, _, _)
\* k more bits of the long division r/d: <<remainder, last bit produced>>
QuotientBits(r, d, k, last) ==
    IF k = 0 THEN <<r, last>>
    ELSE LET bit == IF 2 * r >= d THEN 1 ELSE 0
         IN  QuotientBits(2 * r - bit * d, d, k - 1, bit)

\* the float n / d (a correctly rounded IEEE-754 double, 53 significant bits)
\* compared with the rational n/d: 1 when the double is above it, -1 below, 0 equal
FloatDivError(n, d) ==
    IF n % d = 0 THEN 0
    ELSE LET int_part == n \div d
             cut == IF int_part > 0
                    THEN QuotientBits(n % d, d, 53 - BitLength(int_part), int_part % 2)
                    ELSE QuotientBits(SkipLeadingZeros(n % d, d), d, 52, 1)
             r == cut[1]
         IN  IF r = 0 THEN 0
             ELSE IF 2 * r < d THEN -1
             ELSE IF 2 * r > d THEN 1
             ELSE IF cut[2] = 0 THEN -1 ELSE 1

\* round(seconds / 3600, 2), in hundredths: Python rounds the double correctly to two
\* decimals, so a seconds count halfway between two hundredths goes where the double
\* seconds / 3600 lies relative to it
RoundGapHours(seconds) ==
    LET fl == seconds \div 36
        rem == seconds % 36
        err == FloatDivError(seconds, 3600)
    IN  IF rem < 18 THEN fl
        ELSE IF rem > 18 THEN fl + 1
        ELSE IF err > 0 THEN fl + 1
        ELSE IF err < 0 THEN fl
        ELSE IF fl % 2 = 0 THEN fl ELSE fl + 1

\* a raw_periods entry; duration is kept in seconds (the code divides it by 3600)
RawPeriod(start_ts, end_ts) ==
    [start |-> ParseTs(start_ts), end |-> ParseTs(end_ts),
     start_ts |-> start_ts, end_ts |-> end_ts,
     duration |-> ParseTs(end_ts) - ParseTs(start_ts)]

\* "no unmatched offline event": last_offline_ts is None
NoTs == <<>>

RECURSIVE RawPeriodsLoopOpenEnded(_, _, _)
\* step 2 with an offline that is still open at the end of the list closed a day
\* after it began
RawPeriodsLoopOpenEnded(cleaned, i, last_offline_ts) ==
    IF i > Len(cleaned)
    THEN (IF last_offline_ts # NoTs
          THEN <<RawPeriod(last_offline_ts,
                           Ts(last_offline_ts[1] + 1, last_offline_ts[2],
                              last_offline_ts[3], last_offline_ts[4]))>>
          ELSE <<>>)
    ELSE LET event == cleaned[i]
         IN  IF event.status = "offline"
             THEN RawPeriodsLoopOpenEnded(cleaned, i + 1, event.timestamp_utc)
             ELSE IF event.status = "online" /\ last_offline_ts # NoTs
             THEN <<RawPeriod(last_offline_ts, event.timestamp_utc)>>
                      \o RawPeriodsLoopOpenEnded(cleaned, i + 1, NoTs)
             ELSE RawPeriodsLoopOpenEnded(cleaned, i + 1, last_offline_ts)

RECURSIVE RawPeriodsLoop(_, _, _)
\* step 2 of _detect_sleep_periods: the loop over cleaned from index i
RawPeriodsLoop(cleaned, i, last_offline_ts) ==
    IF i > Len(cleaned) THEN <<>>
    ELSE LET event == cleaned[i]
         IN  IF event.status = "offline"
             THEN RawPeriodsLoop(cleaned, i + 1, event.timestamp_utc)
             ELSE IF event.status = "online" /\ last_offline_ts # NoTs
             THEN <<RawPeriod(last_offline_ts, event.timestamp_utc)>>
                      \o RawPeriodsLoop(cleaned, i + 1, NoTs)
             ELSE RawPeriodsLoop(cleaned, i + 1, last_offline_ts)

\* cleaned = _dedup(_filter_network_noise(events, min_online_seconds))
Cleaned(evs, min_online_seconds) == Dedup(FilterNetworkNoise(evs, min_online_seconds))

RawPeriods(evs, min_online_seconds) == RawPeriodsLoop(Cleaned(evs, min_online_seconds), 1, NoTs)

\* the half-threshold gate left out: every raw period is a candidate
IsCandidateAlways(p, threshold_hours) == TRUE

\* p["duration"] >= min_merge_hours, min_merge_hours = threshold_hours / 2
IsCandidate(p, threshold_hours) == p.duration * 2 >= threshold_hours * 3600

RECURSIVE Candidates(_, _)
\* candidates = [p for p in raw_periods if p["duration"] >= min_merge_hours]
Candidates(raw_periods, threshold_hours) ==
    IF raw_periods = <<>> THEN <<>>
    ELSE (IF IsCandidate(Head(raw_periods), threshold_hours)
          THEN <<Head(raw_periods)>> ELSE <<>>)
         \o Candidates(Tail(raw_periods), threshold_hours)

\* "<" where the code says "<=": an awake gap of exactly the limit splits
WithinInterruptionStrict(current_period, next_period, max_interruption_minutes) ==
    next_period.start - current_period.end < max_interruption_minutes * 60

\* awake_gap_minutes <= max_interruption_minutes
WithinInterruption(current_period, next_period, max_interruption_minutes) ==
    next_period.start - current_period.end <= max_interruption_minutes * 60

\* the merged duration taken as the offline time only, the awake gap left out
ExtendAddingDurations(current_period, next_period) ==
    [current_period EXCEPT !.end = next_period.end,
                           !.end_ts = next_period.end_ts,
                           !.duration = current_period.duration + next_period.duration]

\* the body of the merge branch: extend current_period to next_period's end
Extend(current_period, next_period) ==
    [current_period EXCEPT !.end = next_period.end,
                           !.end_ts = next_period.end_ts,
                           !.duration = next_period.end - current_period.start]

RECURSIVE MergeLoopPeriods(_, _, _)
\* the loop "for next_period in candidates[1:]" and the final append
MergeLoopPeriods(current_period, rest, max_interruption_minutes) ==
    IF rest = <<>> THEN <<current_period>>
    ELSE IF WithinInterruption(current_period, Head(rest), max_interruption_minutes)
         THEN MergeLoopPeriods(Extend(current_period, Head(rest)), Tail(rest),
                               max_interruption_minutes)
         ELSE <<current_period>>
                  \o MergeLoopPeriods(Head(rest), Tail(rest), max_interruption_minutes)

\* step 3 of _detect_sleep_periods
MergedPeriods(candidates, max_interruption_minutes) ==
    IF candidates = <<>> THEN <<>>
    ELSE MergeLoopPeriods(Head(candidates), Tail(candidates), max_interruption_minutes)

\* ">" where the code says ">=": a period of exactly the threshold is dropped
PassesThresholdStrict(p, threshold_hours) == p.duration > threshold_hours * 3600

\* p["duration"] >= threshold_hours
PassesThreshold(p, threshold_hours) == p.duration >= threshold_hours * 3600

RECURSIVE FinalResults(_, _, _)
\* step 4 of _detect_sleep_periods
FinalResults(merged_periods, threshold_hours, assumed_wakeup_hour) ==
    IF merged_periods = <<>> THEN <<>>
    ELSE LET p == Head(merged_periods)
         IN  (IF PassesThreshold(p, threshold_hours)
              THEN <<SleepPeriod(p.start_ts, p.end_ts, RoundGapHours(p.duration),
                                 CalculateTzOffset(p.end, assumed_wakeup_hour),
                                 DateOf(p.end))>>
              ELSE <<>>)
             \o FinalResults(Tail(merged_periods), threshold_hours, assumed_wakeup_hour)

\* _detect_sleep_periods
DetectSleepPeriods(evs, threshold_hours, min_online_seconds, assumed_wakeup_hour, max_interruption_minutes) ==
    LET raw_periods == RawPeriods(evs, min_online_seconds)
    IN  IF raw_periods = <<>> THEN <<>>
        ELSE FinalResults(MergedPeriods(Candidates(raw_periods, threshold_hours),
                                        max_interruption_minutes),
                          threshold_hours, assumed_wakeup_hour)

RECURSIVE NoiseLoopRaises(_, _, _)
\* the while loop of _filter_network_noise from index i: does one of its two
\* _parse_ts calls raise?  Only an online followed by an offline is parsed.
NoiseLoopRaises(sorted_events, i, min_online_seconds) ==
    IF i > Len(sorted_events) THEN FALSE
    ELSE LET current == sorted_events[i]
             pair == /\ current.status = "online"
                     /\ i + 1 <= Len(sorted_events)
                     /\ sorted_events[i + 1].status = "offline"
         IN  IF pair /\ ~(/\ Parses(sorted_events[i + 1].timestamp_utc)
                           /\ Parses(current.timestamp_utc))
             THEN TRUE
             ELSE IF pair /\ ParseTs(sorted_events[i + 1].timestamp_utc)
                                - ParseTs(current.timestamp_utc) < min_online_seconds
             THEN NoiseLoopRaises(sorted_events, i + 2, min_online_seconds)
             ELSE NoiseLoopRaises(sorted_events, i + 1, min_online_seconds)

\* _detect_sleep_periods raises ValueError: a _parse_ts call of the noise filter
\* fails, or the one at the top of the loop over cleaned does
DetectRaises(evs, min_online_seconds) ==
    /\ evs # <<>>
    /\ \/ NoiseLoopRaises(MergeSources(evs), 1, min_online_seconds)
       \/ \E i \in DOMAIN Cleaned(evs, min_online_seconds) :
              ~Parses(Cleaned(evs, min_online_seconds)[i].timestamp_utc)

\* the first period of the date taken whatever its gap_hours
FirstOfDate(best, periods) == best

RECURSIVE MaxByGapHoursLastWins(_, _)
\* a max that lets a later period of equal gap_hours replace the earlier one
MaxByGapHoursLastWins(best, periods) ==
    IF periods = <<>> THEN best
    ELSE MaxByGapHoursLastWins(IF Head(periods).gap_hours >= best.gap_hours
                               THEN Head(periods) ELSE best,
                               Tail(periods))

RECURSIVE MaxByGapHours(_, _)
\* max(periods, key=lambda sp: sp.gap_hours): the first of the maximal ones;
\* best is the maximum so far
MaxByGapHours(best, periods) ==
    IF periods = <<>> THEN best
    ELSE MaxByGapHours(IF Head(periods).gap_hours > best.gap_hours THEN Head(periods) ELSE best,
                       Tail(periods))

RECURSIVE OfDate(_, _)
\* by_date[date]: the periods of one date, in input order
OfDate(periods, date) ==
    IF periods = <<>> THEN <<>>
    ELSE (IF Head(periods).date = date THEN <<Head(periods)>> ELSE <<>>)
         \o OfDate(Tail(periods), date)

RECURSIVE DailyLoop(_, _)
\* the loop over sorted(by_date.keys()); dates is the set of keys still to come
DailyLoop(periods, dates) ==
    IF dates = {} THEN <<>>
    ELSE LET date_str == CHOOSE d \in dates : \A o \in dates : d <= o
             of_date == OfDate(periods, date_str)
             main_sleep == MaxByGapHours(Head(of_date), Tail(of_date))
         IN  <<DayTimezone(date_str, main_sleep.estimated_tz_offset, main_sleep.online_at_utc)>>
                 \o DailyLoop(periods, dates \ {date_str})

\* _compute_daily_timezones
ComputeDailyTimezones(periods) ==
    DailyLoop(periods, {periods[i].date : i \in DOMAIN periods})


-----------------------------------------------------------------------------
(* Calls of the pipeline functions on bounded inputs *)

\* Timestamps the inputs are drawn from.  Each timeline holds the distances one
\* group of behaviours turns on.
\* a night 22:00 -> 06:05 with an online of 29 s / 30 s at its end
TimelineNight ==
    <<Ts(0, 21, 0, 0), Ts(0, 22, 0, 0), Ts(1, 6, 4, 30), Ts(1, 6, 4, 59), Ts(1, 6, 5, 0),
      Ts(1, 10, 30, 0)>>
\* offline 5 h, awake 44 or 45 min, offline again until 05:44
TimelineAwake44 ==
    <<Ts(0, 20, 0, 0), Ts(0, 21, 0, 0), Ts(1, 2, 0, 0), Ts(1, 2, 44, 0), Ts(1, 2, 45, 0),
      Ts(1, 5, 44, 0)>>
\* offline 5 h, awake 45 or 46 min, offline again until 05:46
TimelineAwake46 ==
    <<Ts(0, 20, 0, 0), Ts(0, 21, 0, 0), Ts(1, 2, 0, 0), Ts(1, 2, 45, 0), Ts(1, 2, 46, 0),
      Ts(1, 5, 46, 0)>>
\* segments of 1:59:59, 2:00:00, 3:59:24 (3.99 h) and 4:00:00
TimelineThreshold ==
    <<Ts(0, 0, 0, 0), Ts(0, 1, 0, 0), Ts(0, 2, 59, 59), Ts(0, 3, 0, 0), Ts(0, 4, 59, 24),
      Ts(0, 5, 0, 0)>>

PipelineTimelines == {TimelineNight, TimelineAwake44, TimelineAwake46, TimelineThreshold}

\* the slots _merge_sources alone is fed from, in any order; 01:00 can be used twice
TimelineMerge ==
    <<Ts(0, 0, 0, 0), Ts(0, 1, 0, 0), Ts(0, 1, 0, 0), Ts(0, 2, 0, 0), Ts(0, 3, 0, 0)>>

\* the defaults analyze() passes on
DefaultParams ==
    [threshold_hours |-> DefaultThresholdHours,
     min_online_seconds |-> DefaultMinOnlineSeconds,
     assumed_wakeup_hour |-> DefaultAssumedWakeupHour,
     max_interruption_minutes |-> DefaultMaxInterruptionMinutes]

ParamSets == {DefaultParams}

NoStages == [cleaned |-> <<>>, raw_periods |-> <<>>, candidates |-> <<>>, merged_periods |-> <<>>]

\* the locals of _detect_sleep_periods at its return
Stages(evs, p) ==
    LET raw_periods == RawPeriods(evs, p.min_online_seconds)
        candidates == Candidates(raw_periods, p.threshold_hours)
    IN  [cleaned |-> Cleaned(evs, p.min_online_seconds),
         raw_periods |-> raw_periods,
         candidates |-> IF raw_periods = <<>> THEN <<>> ELSE candidates,
         merged_periods |-> IF raw_periods = <<>> THEN <<>>
                            ELSE MergedPeriods(candidates, p.max_interruption_minutes)]

\* _calculate_tz_offset is not called on its own
OffsetUnused == wakeup_time = <<>> /\ tz_offset = <<>>

\* the loop of _filter_network_noise is not stepped
NoScan == <<>>
ScanUnused == scan = NoScan

\* no HTTP request is dispatched
WebUnused ==
    /\ limiter = <<>> /\ clock = 0 /\ served = <<>> /\ outcome = <<>> /\ requests = 0

\* the program is not running in the specifications of the pure functions
SysIdle ==
    /\ db_events = <<>> /\ db_users = <<>> /\ db_sleep = <<>> /\ db_daily = <<>>
    /\ running = "none" /\ pc = <<>> /\ job = <<>> /\ appends = 0 /\ response = <<>>

InitPipeline ==
    /\ timeline \in PipelineTimelines
    /\ params \in ParamSets
    /\ cursor = 0
    /\ events = <<>>
    /\ phase = "input"
    /\ merged = <<>>
    /\ stages = NoStages
    /\ sleep_periods = <<>>
    /\ daily_timezones = <<>>
    /\ OffsetUnused
    /\ ScanUnused
    /\ SysIdle
    /\ WebUnused

\* the caller puts the next event, later on the timeline, into the list
AppendInput ==
    /\ phase = "input"
    /\ Len(events) < MaxEvents
    /\ \E j \in (cursor + 1)..Len(timeline), source \in Sources, status \in Statuses :
          /\ events' = Append(events, StatusEvent(timeline[j], status,
                                                 RawType(source, status), source))
          /\ cursor' = j
    /\ UNCHANGED <<timeline, params, phase, merged, stages, sleep_periods, daily_timezones, wakeup_time, tz_offset, scan>>
    /\ UNCHANGED sysVars
    /\ UNCHANGED webVars

\* sleep_periods = _detect_sleep_periods(events, threshold, min_online, assumed_hour, max_int),
\* which raises the ValueError of a _parse_ts call or returns;
\* daily_timezones = _compute_daily_timezones(sleep_periods)
RunPipeline ==
    /\ phase = "input"
    /\ IF DetectRaises(events, params.min_online_seconds)
       THEN /\ phase' = "raised"
            /\ UNCHANGED <<merged, stages, sleep_periods, daily_timezones>>
       ELSE /\ phase' = "done"
            /\ merged' = MergeSources(events)
            /\ stages' = Stages(events, params)
            /\ sleep_periods' = DetectSleepPeriods(events, params.threshold_hours,
                                                   params.min_online_seconds,
                                                   params.assumed_wakeup_hour,
                                                   params.max_interruption_minutes)
            /\ daily_timezones' = ComputeDailyTimezones(sleep_periods')
    /\ UNCHANGED <<timeline, cursor, events, params, wakeup_time, tz_offset, scan>>
    /\ UNCHANGED sysVars
    /\ UNCHANGED webVars

NextPipeline == AppendInput \/ RunPipeline

SpecPipeline == InitPipeline /\ [][NextPipeline]_vars

InitMerge ==
    /\ timeline = TimelineMerge
    /\ params = DefaultParams
    /\ cursor = 0
    /\ events = <<>>
    /\ phase = "input"
    /\ merged = <<>>
    /\ stages = NoStages
    /\ sleep_periods = <<>>
    /\ daily_timezones = <<>>
    /\ OffsetUnused
    /\ ScanUnused
    /\ SysIdle
    /\ WebUnused

\* how many elements of the list s satisfy timestamp = ts
CountTs(tss, ts) == Cardinality({i \in DOMAIN tss : tss[i] = ts})

\* the caller puts an event of any free slot of the timeline into the list, in any order
AppendAnyOrder ==
    /\ phase = "input"
    /\ Len(events) < MaxMergeEvents
    /\ \E j \in DOMAIN timeline, source \in Sources, status \in Statuses :
          /\ CountTs([i \in DOMAIN events |-> events[i].timestamp_utc], timeline[j])
                < CountTs(timeline, timeline[j])
          /\ events' = Append(events, StatusEvent(timeline[j], status,
                                                 RawType(source, status), source))
    /\ UNCHANGED <<timeline, cursor, params, phase, merged, stages, sleep_periods, daily_timezones, wakeup_time, tz_offset, scan>>
    /\ UNCHANGED sysVars
    /\ UNCHANGED webVars

\* merged = _merge_sources(events)
RunMerge ==
    /\ phase = "input"
    /\ phase' = "done"
    /\ merged' = MergeSources(events)
    /\ UNCHANGED <<timeline, cursor, events, params, stages, sleep_periods, daily_timezones, wakeup_time, tz_offset, scan>>
    /\ UNCHANGED sysVars
    /\ UNCHANGED webVars

NextMerge == AppendAnyOrder \/ RunMerge

SpecMerge == InitMerge /\ [][NextMerge]_vars


-----------------------------------------------------------------------------
(* Properties of _merge_sources (SpecMerge) *)

\* event j comes before event i in timestamp order, equal timestamps in input order
ComesBefore(evs, j, i) ==
    \/ ParseTs(evs[j].timestamp_utc) < ParseTs(evs[i].timestamp_utc)
    \/ ParseTs(evs[j].timestamp_utc) = ParseTs(evs[i].timestamp_utc) /\ j < i

\* the walk: the indices of the events in timestamp order
WalkOrder(evs) ==
    [r \in DOMAIN evs |->
        CHOOSE i \in DOMAIN evs :
            Cardinality({j \in DOMAIN evs : ComesBefore(evs, j, i)}) = r - 1]

\* for each number r of events walked: some source's latest event so far is online
SomeSourceOnline(evs) ==
    LET walk == WalkOrder(evs)
    IN  [r \in 0..Len(evs) |->
            \E q \in 1..r :
                /\ evs[walk[q]].status = "online"
                /\ \A q2 \in (q + 1)..r : evs[walk[q2]].source # evs[walk[q]].source]

\* the k-th smallest element of a set of numbers
KthOf(S, k) == CHOOSE r \in S : Cardinality({x \in S : x <= r}) = k

\* C5: for every input list (any sources, any order, repeated statuses, equal
\* timestamps) the output of _merge_sources has no two consecutive events with the
\* same status, and every output event has source "combined".
C5_MergeAlternates ==
    phase = "done" =>
        \A i \in DOMAIN merged :
            /\ merged[i].source = "combined"
            /\ i > 1 => merged[i].status # merged[i - 1].status

\* an unordered two-source input with a repeated status and an equal timestamp whose
\* merge has three events
C5_Witness ==
    /\ phase = "done"
    /\ Len(merged) >= 3
    /\ \E i, j \in DOMAIN events :
          /\ i < j
          /\ events[i].timestamp_utc = events[j].timestamp_utc
    /\ \E i \in 1..(Len(events) - 1) :
          /\ events[i].status = events[i + 1].status
          /\ events[i].source = events[i + 1].source
    /\ \E i \in 1..(Len(events) - 1) :
          TsLess(events[i + 1].timestamp_utc, events[i].timestamp_utc)

\* C6: walking the input in timestamp order, the combined status is online exactly
\* when some source's latest event so far is online (offline when all sources seen
\* are offline, and before the first event); _merge_sources emits one event for each
\* step at which that value changes, and no other, carrying the new value and the
\* timestamp and raw type of the source event of that step.
C6_CombinedIsOr ==
    phase = "done" =>
        LET walk == WalkOrder(events)
            online == SomeSourceOnline(events)
            change_steps == {r \in DOMAIN events : online[r] # online[r - 1]}
        IN  /\ Len(merged) = Cardinality(change_steps)
            /\ \A k \in DOMAIN merged :
                  LET r == KthOf(change_steps, k)
                      cause == events[walk[r]]
                  IN  /\ merged[k].status = (IF online[r] THEN "online" ELSE "offline")
                      /\ merged[k].timestamp_utc = cause.timestamp_utc
                      /\ merged[k].raw_status_type = cause.raw_status_type
                      /\ merged[k].source = "combined"

\* telegram goes offline while discord is online: nothing is emitted for it, and the
\* combined stream goes offline only with discord
C6_Witness ==
    /\ phase = "done"
    /\ Len(events) = 4
    /\ \E i \in DOMAIN events :
          /\ events[i].source = "telegram"
          /\ events[i].status = "offline"
          /\ \A k \in DOMAIN merged : merged[k].timestamp_utc # events[i].timestamp_utc
    /\ Len(merged) = 2
    /\ merged[2].status = "offline"
    /\ merged[2].raw_status_type = "DiscordOffline"

\* the events of C7: A online 00:00-02:00, B online 01:00-03:00
OverlapEvents ==
    {StatusEvent(Ts(0, 0, 0, 0), "online", RawType("telegram", "online"), "telegram"),
     StatusEvent(Ts(0, 2, 0, 0), "offline", RawType("telegram", "offline"), "telegram"),
     StatusEvent(Ts(0, 1, 0, 0), "online", RawType("discord", "online"), "discord"),
     StatusEvent(Ts(0, 3, 0, 0), "offline", RawType("discord", "offline"), "discord")}

Orderings(n) == {f \in [1..n -> 1..n] : \A i, j \in 1..n : i # j => f[i] # f[j]}

DistinctTimestamps(evs) ==
    \A i, j \in DOMAIN evs : i # j => evs[i].timestamp_utc # evs[j].timestamp_utc

\* C7: the four events A online@00:00, A offline@02:00, B online@01:00, B offline@03:00
\* merge to [online@00:00, offline@03:00] in whatever order they are given, and an
\* input with pairwise distinct timestamps merges to the same output in every order.
C7_MergeOrderIndependent ==
    phase = "done" =>
        /\ (Len(events) = 4 /\ {events[i] : i \in DOMAIN events} = OverlapEvents) =>
              [k \in DOMAIN merged |-> <<merged[k].status, merged[k].timestamp_utc>>]
                  = << <<"online", Ts(0, 0, 0, 0)>>, <<"offline", Ts(0, 3, 0, 0)>> >>
        /\ DistinctTimestamps(events) =>
              \A f \in Orderings(Len(events)) :
                  MergeSources([i \in DOMAIN events |-> events[f[i]]]) = merged

\* the four events given latest first
C7_Witness ==
    /\ phase = "done"
    /\ Len(events) = 4
    /\ {events[i] : i \in DOMAIN events} = OverlapEvents
    /\ \A i \in 1..3 : TsLess(events[i + 1].timestamp_utc, events[i].timestamp_utc)
    /\ Len(merged) = 2


-----------------------------------------------------------------------------
(* Properties of _detect_sleep_periods and _compute_daily_timezones (SpecPipeline) *)

\* seconds from timestamp a to timestamp b
SecondsBetween(a, b) == ParseTs(b) - ParseTs(a)

\* the list holds events of one source only
SingleSource(evs) == \A i, j \in DOMAIN evs : evs[i].source = evs[j].source

\* C1: the log [Offline at 22:00, Online at 06:05 the next day] of one source, with
\* threshold 4.0 h, min_online 30 s and assumed_wakeup_hour 9, yields exactly one
\* SleepPeriod (22:00 -> 06:05, gap_hours 8.08, offset +3.0, date of the wake-up)
\* and exactly one DailyTimezone entry matching it.
C1_EndToEnd ==
    \A source \in Sources :
        ( /\ phase = "done"
          /\ params = DefaultParams
          /\ events = <<StatusEvent(Ts(0, 22, 0, 0), "offline",
                                    RawType(source, "offline"), source),
                        StatusEvent(Ts(1, 6, 5, 0), "online",
                                    RawType(source, "online"), source)>> )
        => /\ sleep_periods = <<SleepPeriod(Ts(0, 22, 0, 0), Ts(1, 6, 5, 0), 808, 6, 1)>>
           /\ daily_timezones = <<DayTimezone(1, 6, Ts(1, 6, 5, 0))>>

\* events i .. i+3 of a one-source log are Offline, Online, Offline, Online, the first
\* Online lasting less than min_online_seconds, and neither the Offline before it
\* nor the Online after it belongs to another such short online
BlipAt(evs, i, min_online_seconds) ==
    /\ SingleSource(evs)
    /\ i + 3 <= Len(evs)
    /\ evs[i].status = "offline" /\ evs[i + 1].status = "online"
    /\ evs[i + 2].status = "offline" /\ evs[i + 3].status = "online"
    /\ SecondsBetween(evs[i + 1].timestamp_utc, evs[i + 2].timestamp_utc) < min_online_seconds
    /\ i > 1 => /\ evs[i - 1].status = "online"
                /\ SecondsBetween(evs[i - 1].timestamp_utc, evs[i].timestamp_utc)
                      >= min_online_seconds
    /\ i + 4 <= Len(evs) =>
          \/ evs[i + 4].status = "online"
          \/ SecondsBetween(evs[i + 3].timestamp_utc, evs[i + 4].timestamp_utc)
                >= min_online_seconds

\* what C8 says of the short online at i+1, i+2: one offline segment from the first
\* Offline to the Online after the blip, and no sleep period bounded by the blip
BlipRejected(evs, i) ==
    /\ \E k \in DOMAIN stages.raw_periods :
          /\ stages.raw_periods[k].start_ts = evs[i].timestamp_utc
          /\ stages.raw_periods[k].end_ts = evs[i + 3].timestamp_utc
    /\ \A k \in DOMAIN stages.raw_periods :
          /\ stages.raw_periods[k].end_ts # evs[i + 1].timestamp_utc
          /\ stages.raw_periods[k].start_ts # evs[i + 2].timestamp_utc
    /\ \A k \in DOMAIN sleep_periods :
          /\ sleep_periods[k].online_at_utc # evs[i + 1].timestamp_utc
          /\ sleep_periods[k].offline_at_utc # evs[i + 2].timestamp_utc

\* C8: when a source's log contains Offline, Online, Offline with the Online lasting
\* strictly less than min_online_seconds, _detect_sleep_periods treats the two offline
\* spans as one offline segment from the first Offline to the next Online after the
\* blip, and no SleepPeriod starts or ends at either blip event.
C8_NoiseRejection ==
    phase = "done" =>
        \A i \in DOMAIN events :
            BlipAt(events, i, params.min_online_seconds) => BlipRejected(events, i)

\* C8 for the logs in which an Online event precedes the first Offline of the pattern
\* (what remains of C8 when the log does not begin with that Offline); this holds
C8_NoiseRejectionAfterOnline ==
    phase = "done" =>
        \A i \in DOMAIN events :
            (i > 1 /\ BlipAt(events, i, params.min_online_seconds))
                => BlipRejected(events, i)

\* a 29 s online after an Online-led log: the segment spans it
C8_AfterOnlineReached ==
    /\ phase = "done"
    /\ BlipAt(events, 2, params.min_online_seconds)
    /\ Len(sleep_periods) = 1

\* candidates i and i+1 ended up inside one merged period
InOnePeriod(i) ==
    \E k \in DOMAIN stages.merged_periods :
        /\ stages.merged_periods[k].start <= stages.candidates[i].start
        /\ stages.candidates[i + 1].end <= stages.merged_periods[k].end

\* the awake time between candidate i and the next one, in seconds
AwakeGap(i) == stages.candidates[i + 1].start - stages.candidates[i].end

\* the raw segments are one of five hours and one of three hours, gap seconds apart
FiveAndThreeHours(gap) ==
    /\ Len(stages.raw_periods) = 2
    /\ SecondsBetween(stages.raw_periods[1].start_ts, stages.raw_periods[1].end_ts) = 5 * 3600
    /\ SecondsBetween(stages.raw_periods[2].start_ts, stages.raw_periods[2].end_ts) = 3 * 3600
    /\ SecondsBetween(stages.raw_periods[1].end_ts, stages.raw_periods[2].start_ts) = gap

C9_SplitReached ==
    /\ phase = "done"
    /\ FiveAndThreeHours(46 * 60)
    /\ Len(sleep_periods) = 1

\* a raw offline segment from start_ts to end_ts lasting at least threshold_hours / 2
LongRawSegment(k) ==
    2 * SecondsBetween(stages.raw_periods[k].start_ts, stages.raw_periods[k].end_ts)
        >= params.threshold_hours * 3600

-----------------------------------------------------------------------------
(* core/storage.py *)

\* users.user_id of the tracked users (rows made by ensure_user at start-up)
Users == {1}

\* a nullable column: NULL is the empty set, the value v is {v}
Null == {}
Value(v) == {v}

\* INSERT INTO users(telegram_id, discord_id, username, label): the status columns
\* and current_tz_offset start as NULL
NewUser ==
    [telegram_status |-> Null, discord_status |-> Null, current_status |-> Null,
     current_tz_offset |-> Null]

\* one row of the events table
EventRow(user_id, event) ==
    [user_id |-> user_id, timestamp_utc |-> event.timestamp_utc, status |-> event.status,
     raw_status_type |-> event.raw_status_type, source |-> event.source]

MaxOf(S) == CHOOSE x \in S : \A y \in S : y <= x

\* append_event without the look at the source's last two rows: every event is
\* inserted
AppendEventRowsAlwaysInsert(rows, user_id, event) == Append(rows, EventRow(user_id, event))

\* append_event, the events table: the third and later event of a run of one
\* status of one source overwrites the run's last row, any other event is inserted
AppendEventRows(rows, user_id, event) ==
    LET ids == {i \in DOMAIN rows :
                    rows[i].user_id = user_id /\ rows[i].source = event.source}
    IN  IF Cardinality(ids) >= 2
        THEN LET last_id == MaxOf(ids)
                 prev_id == MaxOf(ids \ {last_id})
             IN  IF /\ event.status = rows[last_id].status
                    /\ rows[last_id].status = rows[prev_id].status
                 THEN [rows EXCEPT ![last_id].timestamp_utc = event.timestamp_utc,
                                   ![last_id].raw_status_type = event.raw_status_type]
                 ELSE Append(rows, EventRow(user_id, event))
        ELSE Append(rows, EventRow(user_id, event))

\* append_event, its result: "return True" on every path
AppendEventReturn(rows, user_id, event) == TRUE

\* CASE WHEN telegram_status = 'online' OR discord_status = 'online'
\*      THEN 'online' ELSE 'offline' END   (a NULL column is not 'online')
CombinedStatus(row) ==
    IF row.telegram_status = Value("online") \/ row.discord_status = Value("online")
    THEN "online" ELSE "offline"

\* the users table written with current_status taken from the event alone
SetSourceStatusLastWins(users, user_id, source, status) ==
    LET row == IF source = "telegram"
               THEN [users[user_id] EXCEPT !.telegram_status = Value(status)]
               ELSE [users[user_id] EXCEPT !.discord_status = Value(status)]
    IN  [users EXCEPT ![user_id] = [row EXCEPT !.current_status = Value(status)]]

\* append_event, the users table: the source's column, then current_status
SetSourceStatus(users, user_id, source, status) ==
    LET row == IF source = "telegram"
               THEN [users[user_id] EXCEPT !.telegram_status = Value(status)]
               ELSE [users[user_id] EXCEPT !.discord_status = Value(status)]
    IN  [users EXCEPT ![user_id] = [row EXCEPT !.current_status = Value(CombinedStatus(row))]]

\* update_user_status: the column of the source ("telegram_status" if source ==
\* "telegram" else "discord_status"), then current_status recomputed from both
UpdateUserStatus(users, user_id, status, source) ==
    LET row == IF source = "telegram"
               THEN [users[user_id] EXCEPT !.telegram_status = Value(status)]
               ELSE [users[user_id] EXCEPT !.discord_status = Value(status)]
    IN  [users EXCEPT ![user_id] = [row EXCEPT !.current_status = Value(CombinedStatus(row))]]

RECURSIVE OrderByTimestamp(_)
\* ORDER BY timestamp_utc over rows given in id order (equal timestamps stay in id order)
OrderByTimestamp(evs) ==
    IF evs = <<>> THEN <<>>
    ELSE InsertByTs(OrderByTimestamp(SubSeq(evs, 1, Len(evs) - 1)), evs[Len(evs)])

\* get_all_events_for_user
GetAllEventsForUser(rows, user_id) ==
    LET mine == SelectSeq(rows, LAMBDA r : r.user_id = user_id)
    IN  OrderByTimestamp([i \in DOMAIN mine |->
            StatusEvent(mine[i].timestamp_utc, mine[i].status, mine[i].raw_status_type,
                        mine[i].source)])

\* get_events_count
GetEventsCount(rows, user_id) == Len(SelectSeq(rows, LAMBDA r : r.user_id = user_id))

\* the DELETE statement left out of a replace_* function
KeepRows(table, user_id) == table

\* a DELETE without its WHERE clause: the rows of every user go
DeleteAllRows(table, user_id) == [u \in DOMAIN table |-> <<>>]

\* DELETE FROM <table> WHERE user_id = ?
DeleteRows(table, user_id) == [table EXCEPT ![user_id] = <<>>]

\* executemany("INSERT INTO <table> ...", rows)
InsertRows(table, user_id, rows) == [table EXCEPT ![user_id] = @ \o rows]

RECURSIVE InsertByDate(_, _)
InsertByDate(sorted, r) ==
    IF sorted = <<>> THEN <<r>>
    ELSE IF sorted[Len(sorted)].date <= r.date THEN Append(sorted, r)
    ELSE Append(InsertByDate(SubSeq(sorted, 1, Len(sorted) - 1), r), sorted[Len(sorted)])

RECURSIVE OrderByDate(_)
\* ORDER BY date over rows given in id order
OrderByDate(rows) ==
    IF rows = <<>> THEN <<>>
    ELSE InsertByDate(OrderByDate(SubSeq(rows, 1, Len(rows) - 1)), rows[Len(rows)])

\* get_sleep_periods(user_id) without a date filter
GetSleepPeriods(table, user_id) == OrderByDate(table[user_id])

\* get_daily_timezones(user_id) without a date filter
GetDailyTimezones(table, user_id) == OrderByDate(table[user_id])

\* an UPDATE users that sets current_status along with current_tz_offset
UpdateUserTzAndStatus(users, user_id, offset) ==
    [users EXCEPT ![user_id].current_tz_offset = Value(offset),
                  ![user_id].current_status = Value("offline")]

\* update_user_tz
UpdateUserTz(users, user_id, offset) ==
    [users EXCEPT ![user_id].current_tz_offset = Value(offset)]

-----------------------------------------------------------------------------
(* The running program: main.py gathers the trackers and the HTTP server on one
   asyncio event loop.  A coroutine runs until it awaits; the handlers below are
   cut into the statements they execute, and the loop may switch to another
   coroutine only after a statement that yields. *)

\* the four callers of storage.append_event + sleep_detector.analyze
TelegramHandlers == {"on_user_update", "_process_polled_status"}
DiscordHandlers == {"on_ready", "on_presence_update"}
Handlers == TelegramHandlers \cup DiscordHandlers

\* source="telegram" / source="discord" of the StatusEvent the handler builds
SourceOf(handler) == IF handler \in TelegramHandlers THEN "telegram" ELSE "discord"

\* Values of the timestamp a handler stamps on its event: the wall clock
\* (datetime.now, which may be stepped) or the peer-supplied status.was_online.
WallClock == {Ts(0, 21, 0, 0), Ts(0, 22, 0, 0), Ts(1, 6, 5, 0)}

\* the statements of a handler, named by the call they make; pc holds the next one
AnalyzeWrites ==
    {"delete_sleep_periods", "insert_sleep_periods", "delete_daily_timezones",
     "insert_daily_timezones", "update_user_tz"}

\* config.get("tracking", {}) of a config.json without the section
NoTracking == <<>>

\* config_tracking.get(key, default)
ConfigGet(config_tracking, key, default) ==
    IF key \in DOMAIN config_tracking THEN config_tracking[key] ELSE default

\* what analyze computes from the events it read: the three settings it takes from
\* config_tracking, and max_interruption_minutes left at the default of the signature
AnalyzeSleepPeriods(evs, config_tracking) ==
    DetectSleepPeriods(evs,
                       ConfigGet(config_tracking, "sleep_threshold_hours", DefaultThresholdHours),
                       ConfigGet(config_tracking, "min_online_duration_seconds",
                                 DefaultMinOnlineSeconds),
                       ConfigGet(config_tracking, "assumed_wakeup_hour",
                                 DefaultAssumedWakeupHour),
                       DefaultMaxInterruptionMinutes)

\* analyze without its "if not events: return"
NeverReturnsEarly(evs) == FALSE

\* if not events: return
ReturnsEarly(evs) == evs = <<>>

\* daily_timezones[0].offset_hours: the entry of the earliest date
EarliestOffset(daily) == Head(daily).offset_hours

\* daily_timezones[-1].offset_hours
LatestOffset(daily) == Last(daily).offset_hours

\* the end of analyze with the offset reset when no daily timezone was computed
WriteCurrentOffsetOrClear(users, user_id, daily) ==
    IF daily # <<>>
    THEN UpdateUserTz(users, user_id, LatestOffset(daily))
    ELSE [users EXCEPT ![user_id].current_tz_offset = Null]

\* if daily_timezones:
\*     storage.update_user_tz(user_id, daily_timezones[-1].offset_hours)
WriteCurrentOffset(users, user_id, daily) ==
    IF daily # <<>>
    THEN UpdateUserTz(users, user_id, LatestOffset(daily))
    ELSE users

\* history kept with a handler's locals: the user's log and derived data as they
\* were stored when the handler began
NoBefore == [events |-> <<>>, sleep |-> <<>>, daily |-> <<>>, offset |-> Null]

Before(user_id) ==
    [events |-> GetAllEventsForUser(db_events, user_id),
     sleep |-> db_sleep[user_id],
     daily |-> db_daily[user_id],
     offset |-> db_users[user_id].current_tz_offset]

NoJob ==
    [user_id |-> 0, events |-> <<>>, sleep_periods |-> <<>>, daily_timezones |-> <<>>,
     before |-> NoBefore]

NoResponse == [route |-> "none", user_id |-> 0, body |-> <<>>]

\* an await right after the events were read
YieldsAfterRead(statement) == statement = "get_all_events_for_user"

\* an await between replace_sleep_periods and replace_daily_timezones
YieldsBetweenReplaces(statement) == statement = "insert_sleep_periods"

\* Does the coroutine give the loop away after this statement?  From append_event
\* to the end of analyze every statement is a plain call: there is no await.
Yields(statement) == FALSE

\* the loop after handler t executed the statement
LoopAfter(t, statement) == IF Yields(statement) THEN "none" ELSE t

\* the loop can execute a step of coroutine t
CanRun(t) == running = "none" \/ running = t

PipelineUnused ==
    /\ timeline = <<>> /\ cursor = 0 /\ events = <<>>
    /\ phase = "unused" /\ merged = <<>> /\ stages = NoStages
    /\ sleep_periods = <<>> /\ daily_timezones = <<>>
    /\ OffsetUnused
    /\ ScanUnused

\* A database file left by an earlier run of the program: user 1 was seen online
\* on Telegram at 21:00, offline at 22:00 and online again at 06:05, and the
\* handlers of those three events stored the night.
NightDatabase ==
    [events |-> <<EventRow(1, StatusEvent(Ts(0, 21, 0, 0), "online",
                                          "UserStatusOnline", "telegram")),
                  EventRow(1, StatusEvent(Ts(0, 22, 0, 0), "offline",
                                          "UserStatusOffline", "telegram")),
                  EventRow(1, StatusEvent(Ts(1, 6, 5, 0), "online",
                                          "UserStatusOnline", "telegram"))>>,
     users |-> [u \in Users |->
                   IF u = 1
                   THEN [telegram_status |-> Value("online"), discord_status |-> Null,
                         current_status |-> Value("online"),
                         current_tz_offset |-> Value(6)]
                   ELSE NewUser],
     sleep |-> [u \in Users |->
                   IF u = 1
                   THEN <<SleepPeriod(Ts(0, 22, 0, 0), Ts(1, 6, 5, 0), 808, 6, 1)>>
                   ELSE <<>>],
     daily |-> [u \in Users |->
                   IF u = 1 THEN <<DayTimezone(1, 6, Ts(1, 6, 5, 0))>> ELSE <<>>]]

\* a fresh database: ensure_user made the users, nothing was recorded
FreshDatabase ==
    [events |-> <<>>,
     users |-> [u \in Users |-> NewUser],
     sleep |-> [u \in Users |-> <<>>],
     daily |-> [u \in Users |-> <<>>]]

\* start-up, on a fresh database or on the one an earlier run left, with a
\* config.json that has no "tracking" section
Init ==
    /\ PipelineUnused
    /\ WebUnused
    /\ params = NoTracking
    /\ \E db \in {FreshDatabase, NightDatabase} :
          /\ db_events = db.events
          /\ db_users = db.users
          /\ db_sleep = db.sleep
          /\ db_daily = db.daily
    /\ running = "none"
    /\ pc = [t \in Handlers |-> "idle"]
    /\ job = [t \in Handlers |-> NoJob]
    /\ appends = 0
    /\ response = NoResponse

\* A status of a tracked user arrives: the handler builds the StatusEvent and runs
\*     if storage.append_event(internal_uid, event_obj):
\*         sleep_detector.analyze(internal_uid, self._tracking_config)
HandleStatus(t) ==
    /\ pc[t] = "idle"
    /\ running = "none"
    /\ appends < MaxAppends
    /\ \E user_id \in Users, status \in Statuses, ts \in WallClock :
          LET event == StatusEvent(ts, status, RawType(SourceOf(t), status), SourceOf(t))
          IN  /\ db_events' = AppendEventRows(db_events, user_id, event)
              /\ db_users' = SetSourceStatus(db_users, user_id, event.source, event.status)
              /\ IF AppendEventReturn(db_events, user_id, event)
                 THEN /\ job' = [job EXCEPT ![t] = [NoJob EXCEPT !.user_id = user_id,
                                                                 !.before = Before(user_id)]]
                      /\ pc' = [pc EXCEPT ![t] = "get_all_events_for_user"]
                      /\ running' = LoopAfter(t, "append_event")
                 ELSE /\ job' = job
                      /\ pc' = pc
                      /\ running' = "none"
    /\ appends' = appends + 1
    /\ response' = NoResponse
    /\ UNCHANGED <<db_sleep, db_daily>>
    /\ UNCHANGED pipeVars
    /\ UNCHANGED webVars

\* analyze: events = get_all_events_for_user(user_id); return if there are none
\* (job keeps the user of the call that returned until the handler's next call);
\* sleep_periods = _detect_sleep_periods(...); daily_timezones = _compute_daily_timezones(...)
AnalyzeRead(t) ==
    /\ pc[t] = "get_all_events_for_user"
    /\ CanRun(t)
    /\ LET evs == GetAllEventsForUser(db_events, job[t].user_id)
           periods == AnalyzeSleepPeriods(evs, params)
       IN  IF ReturnsEarly(evs)
           THEN /\ job' = [job EXCEPT ![t] = [NoJob EXCEPT !.user_id = job[t].user_id]]
                /\ pc' = [pc EXCEPT ![t] = "idle"]
                /\ running' = "none"
           ELSE /\ job' = [job EXCEPT ![t].events = evs,
                                      ![t].sleep_periods = periods,
                                      ![t].daily_timezones = ComputeDailyTimezones(periods)]
                /\ pc' = [pc EXCEPT ![t] = "delete_sleep_periods"]
                /\ running' = LoopAfter(t, "get_all_events_for_user")
    /\ response' = NoResponse
    /\ UNCHANGED <<db_events, db_users, db_sleep, db_daily, appends>>
    /\ UNCHANGED pipeVars
    /\ UNCHANGED webVars

\* replace_sleep_periods: DELETE FROM sleep_periods WHERE user_id = ?
DeleteSleepPeriods(t) ==
    /\ pc[t] = "delete_sleep_periods"
    /\ CanRun(t)
    /\ db_sleep' = DeleteRows(db_sleep, job[t].user_id)
    /\ pc' = [pc EXCEPT ![t] = "insert_sleep_periods"]
    /\ running' = LoopAfter(t, "delete_sleep_periods")
    /\ response' = NoResponse
    /\ UNCHANGED <<db_events, db_users, db_daily, job, appends>>
    /\ UNCHANGED pipeVars
    /\ UNCHANGED webVars

\* replace_sleep_periods: executemany(INSERT INTO sleep_periods ...); commit
InsertSleepPeriods(t) ==
    /\ pc[t] = "insert_sleep_periods"
    /\ CanRun(t)
    /\ db_sleep' = InsertRows(db_sleep, job[t].user_id, job[t].sleep_periods)
    /\ pc' = [pc EXCEPT ![t] = "delete_daily_timezones"]
    /\ running' = LoopAfter(t, "insert_sleep_periods")
    /\ response' = NoResponse
    /\ UNCHANGED <<db_events, db_users, db_daily, job, appends>>
    /\ UNCHANGED pipeVars
    /\ UNCHANGED webVars

\* replace_daily_timezones: DELETE FROM daily_timezones WHERE user_id = ?
DeleteDailyTimezones(t) ==
    /\ pc[t] = "delete_daily_timezones"
    /\ CanRun(t)
    /\ db_daily' = DeleteRows(db_daily, job[t].user_id)
    /\ pc' = [pc EXCEPT ![t] = "insert_daily_timezones"]
    /\ running' = LoopAfter(t, "delete_daily_timezones")
    /\ response' = NoResponse
    /\ UNCHANGED <<db_events, db_users, db_sleep, job, appends>>
    /\ UNCHANGED pipeVars
    /\ UNCHANGED webVars

\* replace_daily_timezones: executemany(INSERT INTO daily_timezones ...); commit
InsertDailyTimezones(t) ==
    /\ pc[t] = "insert_daily_timezones"
    /\ CanRun(t)
    /\ db_daily' = InsertRows(db_daily, job[t].user_id, job[t].daily_timezones)
    /\ pc' = [pc EXCEPT ![t] = "update_user_tz"]
    /\ running' = LoopAfter(t, "insert_daily_timezones")
    /\ response' = NoResponse
    /\ UNCHANGED <<db_events, db_users, db_sleep, job, appends>>
    /\ UNCHANGED pipeVars
    /\ UNCHANGED webVars

\* if daily_timezones: update_user_tz(user_id, daily_timezones[-1].offset_hours);
\* analyze and the handler return
FinishAnalyze(t) ==
    /\ pc[t] = "update_user_tz"
    /\ CanRun(t)
    /\ db_users' = WriteCurrentOffset(db_users, job[t].user_id, job[t].daily_timezones)
    /\ pc' = [pc EXCEPT ![t] = "idle"]
    /\ job' = [job EXCEPT ![t] = NoJob]
    /\ running' = "none"
    /\ response' = NoResponse
    /\ UNCHANGED <<db_events, db_sleep, db_daily, appends>>
    /\ UNCHANGED pipeVars
    /\ UNCHANGED webVars

-----------------------------------------------------------------------------
(* web/routes.py: the route handlers are coroutines of the same loop and make
   plain storage calls only *)

\* days: int = Query(30, ge=1, le=365)
DefaultStatsDays == 30

\* s[-n:]
LastN(s, n) == IF Len(s) <= n THEN s ELSE SubSeq(s, Len(s) - n + 1, Len(s))

\* round(wake.hour + wake.minute / 60, 2) in hundredths of an hour; minute / 60 is
\* never half a hundredth away from a hundredth, so the nearest one is exact
HourUtc(ts) == 100 * ts[2] + (10 * ts[3] + 3) \div 6

RECURSIVE SortedSet(_)
\* sorted(set(...))
SortedSet(S) ==
    IF S = {} THEN <<>>
    ELSE LET least == CHOOSE x \in S : \A y \in S : x <= y
         IN  <<least>> \o SortedSet(S \ {least})

\* _user_summary, the fields read from the users and events tables
UserSummary(user_id) ==
    [current_status |-> db_users[user_id].current_status,
     current_tz_offset |-> db_users[user_id].current_tz_offset,
     last_event_utc |->
        IF db_events = <<>> \/ \A i \in DOMAIN db_events : db_events[i].user_id # user_id
        THEN Null
        ELSE Value(db_events[MaxOf({i \in DOMAIN db_events :
                                        db_events[i].user_id = user_id})].timestamp_utc),
     events_count |-> GetEventsCount(db_events, user_id)]

\* the body of get_stats, without online_periods (built from the events and the clock)
StatsBody(user_id, days) ==
    LET daily_tzs == GetDailyTimezones(db_daily, user_id)
        periods == GetSleepPeriods(db_sleep, user_id)
        wakeup_times == [i \in DOMAIN daily_tzs |->
                            [date |-> daily_tzs[i].date,
                             hour_utc |-> HourUtc(daily_tzs[i].wakeup_utc),
                             offset |-> daily_tzs[i].offset_hours]]
    IN  [period_days |-> days,
         total_events |-> GetEventsCount(db_events, user_id),
         total_sleep_periods |-> Len(periods),
         timezone_offsets_seen |->
            SortedSet({daily_tzs[i].offset_hours : i \in DOMAIN daily_tzs}),
         wakeup_times |-> LastN(wakeup_times, days)]

\* the response of a route for a user
Respond(route, user_id, body) ==
    /\ running = "none"
    /\ response' = [route |-> route, user_id |-> user_id, body |-> body]
    /\ UNCHANGED <<db_events, db_users, db_sleep, db_daily, running, pc, job, appends>>
    /\ UNCHANGED pipeVars
    /\ UNCHANGED webVars

\* GET /users/{user_id}
GetUserRoute ==
    \E user_id \in Users : Respond("user", user_id, UserSummary(user_id))

\* GET /users/{user_id}/sleep-periods
GetSleepPeriodsRoute ==
    \E user_id \in Users :
        Respond("sleep-periods", user_id, GetSleepPeriods(db_sleep, user_id))

\* GET /users/{user_id}/timezone-history
GetTimezoneHistoryRoute ==
    \E user_id \in Users :
        Respond("timezone-history", user_id, GetDailyTimezones(db_daily, user_id))

\* GET /users/{user_id}/stats
GetStatsRoute ==
    \E user_id \in Users : Respond("stats", user_id, StatsBody(user_id, DefaultStatsDays))

Next ==
    \/ \E t \in Handlers : HandleStatus(t)
    \/ \E t \in Handlers : AnalyzeRead(t)
    \/ \E t \in Handlers : DeleteSleepPeriods(t)
    \/ \E t \in Handlers : InsertSleepPeriods(t)
    \/ \E t \in Handlers : DeleteDailyTimezones(t)
    \/ \E t \in Handlers : InsertDailyTimezones(t)
    \/ \E t \in Handlers : FinishAnalyze(t)
    \/ GetUserRoute
    \/ GetSleepPeriodsRoute
    \/ GetTimezoneHistoryRoute
    \/ GetStatsRoute

Spec == Init /\ [][Next]_vars

-----------------------------------------------------------------------------
(* Properties of the running program (Spec) *)

\* no handler is between its append_event and the end of its analyze for the user
Quiet(user_id) ==
    \A t \in Handlers : pc[t] # "idle" => job[t].user_id # user_id

\* the user's complete event log as analyze would read it now
StoredLog(user_id) == GetAllEventsForUser(db_events, user_id)

\* the pipeline output for a log, with the settings analyze passes
PipelineOf(evs) ==
    DetectSleepPeriods(evs, DefaultThresholdHours, DefaultMinOnlineSeconds,
                       DefaultAssumedWakeupHour, DefaultMaxInterruptionMinutes)

\* C2: after every tracker handler that appends an event (append_event followed by
\* analyze) has completed, the stored sleep_periods and daily_timezones of the user
\* equal the pipeline output on the user's complete event log as it stands then;
\* nothing of a previous run's result survives.
C2_RegeneratedFromWholeLog ==
    \A user_id \in Users :
        (Quiet(user_id) /\ StoredLog(user_id) # <<>>) =>
            /\ db_sleep[user_id] = PipelineOf(StoredLog(user_id))
            /\ db_daily[user_id] = ComputeDailyTimezones(PipelineOf(StoredLog(user_id)))

\* a handler completed on a log that yields no period, after a log that yielded
\* one: the stored night is gone
C2_Witness ==
    /\ Quiet(1)
    /\ appends >= 1
    /\ Len(db_events) >= 4
    /\ \A i \in DOMAIN db_events : db_events[i].user_id = 1
    /\ PipelineOf(GetAllEventsForUser(SubSeq(db_events, 1, 3), 1)) # <<>>
    /\ db_sleep[1] = <<>>
    /\ db_daily[1] = <<>>

\* C3: recompute runs for one user are serialized: between an analyze's read of the
\* user's event log and its last write no other handler (Telegram update, Telegram
\* poll, Discord) is inside append_event or analyze for that user, and the snapshot
\* the run writes from is still the user's whole log, so results of an older
\* snapshot never replace those of a newer one.
C3_RunsSerialized ==
    \A t \in Handlers :
        pc[t] \in AnalyzeWrites =>
            /\ job[t].events = StoredLog(job[t].user_id)
            /\ \A other \in Handlers \ {t} :
                  pc[other] # "idle" => job[other].user_id # job[t].user_id

\* a Discord handler is writing a night it computed from a log that Telegram
\* handlers appended to as well
C3_Witness ==
    \E t \in DiscordHandlers :
        /\ pc[t] = "insert_daily_timezones"
        /\ job[t].user_id = 1
        /\ job[t].sleep_periods # <<>>
        /\ \E i \in DOMAIN db_events :
              db_events[i].user_id = 1 /\ db_events[i].source = "telegram"
        /\ \E i \in DOMAIN db_events :
              db_events[i].user_id = 1 /\ db_events[i].source = "discord"

\* C4: the derived set of a user is replaced atomically: an HTTP route handler
\* never answers from the middle of a run.  What it reads is never a sleep-period
\* set deleted and not yet re-inserted, nor the new sleep periods with the daily
\* timezones or the current offset of the run before.
C4_ReadersSeeWholeRuns ==
    response.route # "none" =>
        LET user_id == response.user_id
            stored_sleep == GetSleepPeriods(db_sleep, user_id)
            stored_daily == GetDailyTimezones(db_daily, user_id)
        IN  /\ Quiet(user_id)
            /\ stored_sleep = PipelineOf(StoredLog(user_id))
            /\ stored_daily = ComputeDailyTimezones(stored_sleep)
            /\ stored_daily # <<>> =>
                  db_users[user_id].current_tz_offset
                      = Value(Last(stored_daily).offset_hours)
            /\ response.route = "sleep-periods" => response.body = stored_sleep
            /\ response.route = "timezone-history" => response.body = stored_daily
            /\ response.route = "stats" =>
                  /\ response.body.total_sleep_periods = Len(stored_sleep)
                  /\ Len(response.body.wakeup_times) = Len(stored_daily)
                  /\ \A i \in DOMAIN stored_daily :
                        /\ response.body.wakeup_times[i].date = stored_daily[i].date
                        /\ response.body.wakeup_times[i].offset
                              = stored_daily[i].offset_hours
            /\ response.route = "user" =>
                  response.body.current_tz_offset = db_users[user_id].current_tz_offset

\* the stats route answered after a Discord handler's run re-stored the night:
\* the count of sleep periods and the wake-up list it returns are of that run
C4_Witness ==
    /\ response.route = "stats"
    /\ response.user_id = 1
    /\ appends >= 1
    /\ db_events[Len(db_events)].source = "discord"
    /\ response.body.total_sleep_periods = 1
    /\ Len(response.body.wakeup_times) = 1
    /\ response.body.timezone_offsets_seen = <<6>>

-----------------------------------------------------------------------------
(* Properties of step 4 of _detect_sleep_periods (SpecPipeline) *)

\* the merged period k is in the output
Reported(k) ==
    \E i \in DOMAIN sleep_periods :
        /\ sleep_periods[i].offline_at_utc = stages.merged_periods[k].start_ts
        /\ sleep_periods[i].online_at_utc = stages.merged_periods[k].end_ts

\* wall-clock length of the merged period k, in seconds
SpanOfMerged(k) ==
    SecondsBetween(stages.merged_periods[k].start_ts, stages.merged_periods[k].end_ts)

\* C11: a merged period is reported as a SleepPeriod exactly when its duration is
\* >= threshold_hours: one lasting exactly threshold_hours is kept, one lasting
\* threshold_hours minus 0.01 h (36 s) is dropped, and nothing else is reported.
C11_ThresholdBoundary ==
    phase = "done" =>
        /\ \A k \in DOMAIN stages.merged_periods :
              /\ Reported(k) <=> SpanOfMerged(k) >= params.threshold_hours * 3600
              /\ SpanOfMerged(k) = params.threshold_hours * 3600 => Reported(k)
              /\ SpanOfMerged(k) = params.threshold_hours * 3600 - 36 => ~Reported(k)
        /\ \A i \in DOMAIN sleep_periods :
              \E k \in DOMAIN stages.merged_periods :
                  /\ sleep_periods[i].offline_at_utc = stages.merged_periods[k].start_ts
                  /\ sleep_periods[i].online_at_utc = stages.merged_periods[k].end_ts
        /\ Len(sleep_periods) <= Len(stages.merged_periods)

\* a merged period of exactly threshold_hours was reported
C11_Witness ==
    /\ phase = "done"
    /\ \E k \in DOMAIN stages.merged_periods :
          SpanOfMerged(k) = params.threshold_hours * 3600 /\ Reported(k)
    /\ Len(sleep_periods) = 1
    /\ sleep_periods[1].gap_hours = 100 * params.threshold_hours

\* a merged period of threshold_hours - 0.01 h came up and was dropped
C11_JustBelowReached ==
    /\ phase = "done"
    /\ \E k \in DOMAIN stages.merged_periods :
          SpanOfMerged(k) = params.threshold_hours * 3600 - 36
    /\ sleep_periods = <<>>

\* C12: for every SleepPeriod, also one built from several merged segments,
\* gap_hours is the wall-clock span from offline_at to online_at in hours rounded
\* to 2 decimals (here: the hundredth nearest to the span), so the awake
\* interruptions inside a merged period are counted in gap_hours.
C12_GapIsWallClockSpan ==
    phase = "done" =>
        \A i \in DOMAIN sleep_periods :
            LET span == SecondsBetween(sleep_periods[i].offline_at_utc,
                                       sleep_periods[i].online_at_utc)
            IN  /\ 36 * sleep_periods[i].gap_hours - 18 <= span
                /\ span <= 36 * sleep_periods[i].gap_hours + 18

\* a reported period made of two candidates with awake time between them: its
\* gap_hours is more than the two offline durations add up to
C12_Witness ==
    /\ phase = "done"
    /\ Len(stages.candidates) = 2
    /\ Len(stages.merged_periods) = 1
    /\ AwakeGap(1) > 0
    /\ Len(sleep_periods) = 1
    /\ 36 * sleep_periods[1].gap_hours - 18
          > stages.candidates[1].duration + stages.candidates[2].duration

-----------------------------------------------------------------------------
(* Calls of _compute_daily_timezones on bounded lists of sleep periods *)

\* Offline/online pairs the sleep periods are made of: on day 0 two of 4 h with
\* different wake-up hours and one of 8 h, on day 1 one of 8.08 h and one of 4 h.
SleepWindows ==
    {<<Ts(0, 0, 0, 0), Ts(0, 4, 0, 0)>>,
     <<Ts(0, 10, 0, 0), Ts(0, 14, 0, 0)>>,
     <<Ts(0, 15, 0, 0), Ts(0, 23, 0, 0)>>,
     <<Ts(0, 22, 0, 0), Ts(1, 6, 5, 0)>>,
     <<Ts(1, 10, 0, 0), Ts(1, 14, 0, 0)>>}

\* the SleepPeriod step 4 of _detect_sleep_periods builds for an offline/online pair
PeriodOfWindow(w, assumed_wakeup_hour) ==
    SleepPeriod(w[1], w[2], RoundGapHours(ParseTs(w[2]) - ParseTs(w[1])),
                CalculateTzOffset(ParseTs(w[2]), assumed_wakeup_hour),
                DateOf(ParseTs(w[2])))

InitDaily ==
    /\ timeline = <<>>
    /\ params = DefaultParams
    /\ cursor = 0
    /\ events = <<>>
    /\ phase = "input"
    /\ merged = <<>>
    /\ stages = NoStages
    /\ sleep_periods = <<>>
    /\ daily_timezones = <<>>
    /\ OffsetUnused
    /\ ScanUnused
    /\ SysIdle
    /\ WebUnused

\* the caller puts one more sleep period into the list, in any order
AppendPeriod ==
    /\ phase = "input"
    /\ Len(sleep_periods) < MaxPeriods
    /\ \E w \in SleepWindows :
          sleep_periods' = Append(sleep_periods,
                                  PeriodOfWindow(w, params.assumed_wakeup_hour))
    /\ UNCHANGED <<timeline, cursor, events, params, phase, merged, stages, daily_timezones, wakeup_time, tz_offset, scan>>
    /\ UNCHANGED sysVars
    /\ UNCHANGED webVars

\* daily_timezones = _compute_daily_timezones(sleep_periods)
RunDaily ==
    /\ phase = "input"
    /\ phase' = "done"
    /\ daily_timezones' = ComputeDailyTimezones(sleep_periods)
    /\ UNCHANGED <<timeline, cursor, events, params, merged, stages, sleep_periods, wakeup_time, tz_offset, scan>>
    /\ UNCHANGED sysVars
    /\ UNCHANGED webVars

NextDaily == AppendPeriod \/ RunDaily

SpecDaily == InitDaily /\ [][NextDaily]_vars

-----------------------------------------------------------------------------
(* Properties of _compute_daily_timezones (SpecDaily) *)

\* indices of the given periods that carry the date
PeriodsOfDate(date) == {k \in DOMAIN sleep_periods : sleep_periods[k].date = date}

\* indices of the periods of the date whose gap_hours is maximal among them
LongestOfDate(date) ==
    {k \in PeriodsOfDate(date) :
        \A l \in PeriodsOfDate(date) : sleep_periods[l].gap_hours <= sleep_periods[k].gap_hours}

\* C13: _compute_daily_timezones returns exactly one entry per distinct date among
\* the given sleep periods (no date twice, none without a period), sorted by date
\* ascending, and each entry's offset_hours and wakeup_utc are those of a period of
\* that date whose gap_hours is maximal among the periods of that date.
C13_OneEntryPerDate ==
    phase = "done" =>
        /\ {daily_timezones[i].date : i \in DOMAIN daily_timezones}
              = {sleep_periods[k].date : k \in DOMAIN sleep_periods}
        /\ \A i, j \in DOMAIN daily_timezones :
              i < j => daily_timezones[i].date < daily_timezones[j].date
        /\ \A i \in DOMAIN daily_timezones :
              \E k \in LongestOfDate(daily_timezones[i].date) :
                  /\ daily_timezones[i].offset_hours = sleep_periods[k].estimated_tz_offset
                  /\ daily_timezones[i].wakeup_utc = sleep_periods[k].online_at_utc

\* three periods given out of date order, the longest of a date not first among
\* those of its date: two entries come back
C13_Witness ==
    /\ phase = "done"
    /\ Len(sleep_periods) = 3
    /\ sleep_periods[1].date > sleep_periods[3].date
    /\ sleep_periods[2].date = sleep_periods[3].date
    /\ sleep_periods[2].gap_hours < sleep_periods[3].gap_hours
    /\ Len(daily_timezones) = 2
    /\ daily_timezones[1].wakeup_utc = sleep_periods[3].online_at_utc

\* C14: when sleep periods of the same date have equal (maximal) gap_hours but
\* different offsets, _compute_daily_timezones selects the one that comes first
\* in the input list.
C14_FirstOfEqualGapsWins ==
    phase = "done" =>
        \A i \in DOMAIN daily_timezones :
            LET top == LongestOfDate(daily_timezones[i].date)
                first == CHOOSE k \in top : \A l \in top : k <= l
            IN  /\ daily_timezones[i].offset_hours = sleep_periods[first].estimated_tz_offset
                /\ daily_timezones[i].wakeup_utc = sleep_periods[first].online_at_utc

\* two periods of one date with equal gap_hours and different offsets; the entry
\* has the offset of the one given first
C14_Witness ==
    /\ phase = "done"
    /\ Len(sleep_periods) >= 2
    /\ sleep_periods[1].date = sleep_periods[2].date
    /\ sleep_periods[1].gap_hours = sleep_periods[2].gap_hours
    /\ sleep_periods[1].estimated_tz_offset # sleep_periods[2].estimated_tz_offset
    /\ LongestOfDate(sleep_periods[1].date) = {1, 2}
    /\ TsLess(sleep_periods[2].online_at_utc, sleep_periods[1].online_at_utc)
    /\ daily_timezones[1].offset_hours = sleep_periods[1].estimated_tz_offset

-----------------------------------------------------------------------------
(* Calls of _calculate_tz_offset on every wake-up hour and minute *)

HoursOfDay == 0..23
MinutesOfHour == 0..59

InitOffset ==
    /\ timeline = <<>>
    /\ params \in {[DefaultParams EXCEPT !.assumed_wakeup_hour = h] : h \in HoursOfDay}
    /\ cursor = 0
    /\ events = <<>>
    /\ phase = "input"
    /\ merged = <<>>
    /\ stages = NoStages
    /\ sleep_periods = <<>>
    /\ daily_timezones = <<>>
    /\ wakeup_time \in {Ts(0, h, m, 0) : h \in HoursOfDay, m \in MinutesOfHour}
    /\ tz_offset = <<>>
    /\ ScanUnused
    /\ SysIdle
    /\ WebUnused

\* tz_offset = _calculate_tz_offset(wakeup_time, assumed_wakeup_hour)
RunOffset ==
    /\ phase = "input"
    /\ phase' = "done"
    /\ tz_offset' = CalculateTzOffset(ParseTs(wakeup_time), params.assumed_wakeup_hour)
    /\ UNCHANGED <<timeline, cursor, events, params, merged, stages, sleep_periods,
                   daily_timezones, wakeup_time, scan>>
    /\ UNCHANGED sysVars
    /\ UNCHANGED webVars

NextOffset == RunOffset

SpecOffset == InitOffset /\ [][NextOffset]_vars

-----------------------------------------------------------------------------
(* Properties of _calculate_tz_offset (SpecOffset) *)

\* C15: for every wake-up time (hour 0..23, minute 0..59) and every
\* assumed_wakeup_hour in 0..23, _calculate_tz_offset returns a multiple of 0.5
\* within [-12, +14]: the value is round(offset * 2) / 2, and the integer
\* round(offset * 2) kept here lies within [-24, +28].
C15_OffsetInRange ==
    phase = "done" =>
        /\ tz_offset \in Int
        /\ -24 <= tz_offset
        /\ tz_offset <= 28

\* the upper end +14.0 is returned, for a wake-up hour that needs no normalizing
C15_Witness ==
    /\ phase = "done"
    /\ tz_offset = 28
    /\ params.assumed_wakeup_hour - wakeup_time[2] = 14

\* a difference under -12 is brought back into the range
C15_NormalizedReached ==
    /\ phase = "done"
    /\ params.assumed_wakeup_hour = 0
    /\ wakeup_time = Ts(0, 23, 30, 0)
    /\ tz_offset = 1

\* C16: with assumed_wakeup_hour = 9, a wake-up at 03:00 UTC gives +6.0, at 06:00
\* UTC +3.0, at 22:00 UTC +11.0 (9 - 22 = -13, normalized by +24) and at 00:15 UTC
\* 9.0 (8.75 rounded to the nearest half hour).
C16_ReferenceOffsets ==
    (phase = "done" /\ params.assumed_wakeup_hour = 9) =>
        /\ wakeup_time = Ts(0, 3, 0, 0) => tz_offset = 12
        /\ wakeup_time = Ts(0, 6, 0, 0) => tz_offset = 6
        /\ wakeup_time = Ts(0, 22, 0, 0) => tz_offset = 22
        /\ wakeup_time = Ts(0, 0, 15, 0) => tz_offset = 18

\* the wake-up at 00:15 with assumed hour 9: 17.5 half hours went to 18
C16_Witness ==
    /\ phase = "done"
    /\ params.assumed_wakeup_hour = 9
    /\ wakeup_time = Ts(0, 0, 15, 0)
    /\ tz_offset = 18

-----------------------------------------------------------------------------
(* Properties of analyze and append_event in the running program (Spec) *)

\* handler t is about to finish a run of analyze on a log that its append_event
\* left exactly as the run before had read it
SecondRunOnSameLog(t) ==
    /\ pc[t] = "update_user_tz"
    /\ job[t].before.events = job[t].events

\* C17: idempotence.  A second run on the same event set computes the same
\* SleepPeriod and DailyTimezone lists as the run before it, and when analyze has
\* run again with no event appended in between, the user's stored sleep_periods,
\* daily_timezones and current_tz_offset have the content they had after the
\* first run.
C17_Idempotent ==
    [][\A t \in Handlers :
          (SecondRunOnSameLog(t) /\ pc'[t] = "idle") =>
              /\ job[t].sleep_periods = job[t].before.sleep
              /\ job[t].daily_timezones = job[t].before.daily
              /\ db_sleep'[job[t].user_id] = job[t].before.sleep
              /\ db_daily'[job[t].user_id] = job[t].before.daily
              /\ db_users'[job[t].user_id].current_tz_offset = job[t].before.offset]_vars

\* a run on an unchanged log that holds a night has made all its writes but the last
C17_Witness ==
    \E t \in Handlers :
        /\ SecondRunOnSameLog(t)
        /\ job[t].before.sleep # <<>>
        /\ job[t].before.offset # Null
        /\ db_sleep[job[t].user_id] = job[t].before.sleep

\* the stored events of one user and one source, in insertion (id) order
RowsOf(user_id, source) ==
    SelectSeq(db_events, LAMBDA r : r.user_id = user_id /\ r.source = source)

\* C18: after any sequence of append_event calls, the events stored for one user
\* and one source, taken in insertion order, never contain two consecutive events
\* with the same status.
C18_NoRepeatedStatusStored ==
    \A user_id \in Users, source \in Sources :
        \A i \in 1..(Len(RowsOf(user_id, source)) - 1) :
            RowsOf(user_id, source)[i].status # RowsOf(user_id, source)[i + 1].status

\* C19: analyze is invoked exactly when append_event stored a new event row; when
\* the new event repeats the status of the source's run and no row is inserted,
\* the tracker does not invoke analyze.
C19_AnalyzeOnlyAfterNewRow ==
    [][\A t \in Handlers :
          (pc[t] = "idle" /\ pc'[t] = "get_all_events_for_user")
              => Len(db_events') = Len(db_events) + 1]_vars

\* C20: the event log is append-only and its events are immutable: no step changes
\* the timestamp, status, raw kind or source of a stored event, and no stored
\* event is removed.
C20_LogAppendOnly ==
    [][/\ Len(db_events') >= Len(db_events)
       /\ \A i \in DOMAIN db_events : db_events'[i] = db_events[i]]_vars

-----------------------------------------------------------------------------
(* Calls of the pipeline on a log that holds a timestamp _parse_ts rejects *)

\* a night 22:00 -> 06:05 and, between its ends, the string "...T24:30:00Z": it
\* sorts behind every timestamp of day 0 and datetime.fromisoformat rejects it
TimelineMalformed ==
    <<Ts(0, 21, 0, 0), Ts(0, 22, 0, 0), Ts(0, 24, 30, 0), Ts(1, 6, 5, 0), Ts(1, 10, 30, 0)>>

InitMalformed ==
    /\ timeline = TimelineMalformed
    /\ params = DefaultParams
    /\ cursor = 0
    /\ events = <<>>
    /\ phase = "input"
    /\ merged = <<>>
    /\ stages = NoStages
    /\ sleep_periods = <<>>
    /\ daily_timezones = <<>>
    /\ OffsetUnused
    /\ ScanUnused
    /\ SysIdle
    /\ WebUnused

SpecMalformed == InitMalformed /\ [][NextPipeline]_vars

-----------------------------------------------------------------------------
(* Properties of the pipeline on malformed timestamps (SpecMalformed) *)

\* C21: if any event of the log has a timestamp that cannot be parsed, wherever it
\* sits in the log, the run ends with an error and yields no results; it never
\* skips the event or computes results as if the event were valid.
C21_MalformedFailsHard ==
    (phase # "input" /\ \E i \in DOMAIN events : ~Parses(events[i].timestamp_utc)) =>
        /\ phase = "raised"
        /\ sleep_periods = <<>>
        /\ daily_timezones = <<>>

\* the part that holds: a malformed timestamp on an event that changes the
\* combined status makes the call raise
C21_RaisesOnCombinedChange ==
    (phase # "input" /\ \E i \in DOMAIN MergeSources(events) :
                            ~Parses(MergeSources(events)[i].timestamp_utc)) =>
        phase = "raised"

\* a call raised on a log whose malformed event changes the combined status
C21_RaisedReached ==
    /\ phase = "raised"
    /\ Len(events) >= 3

-----------------------------------------------------------------------------
(* Calls of analyze(user_id, config_tracking) on stored logs: the database is
   the one a handler's append_event has just written to, or one at rest, and
   the configuration is any of a few "tracking" sections *)

TwoUsers == {1, 2}

\* two nights on Telegram: 22:00 -> 06:05 (+3.0) and 23:00 -> 08:30 (+0.5)
LogTwoNights ==
    <<StatusEvent(Ts(0, 21, 0, 0), "online", "UserStatusOnline", "telegram"),
      StatusEvent(Ts(0, 22, 0, 0), "offline", "UserStatusOffline", "telegram"),
      StatusEvent(Ts(1, 6, 5, 0), "online", "UserStatusOnline", "telegram"),
      StatusEvent(Ts(1, 23, 0, 0), "offline", "UserStatusOffline", "telegram"),
      StatusEvent(Ts(2, 8, 30, 0), "online", "UserStatusOnline", "telegram")>>

\* offline 5 h, awake 44 min, offline 3 h
LogAwake44 ==
    <<StatusEvent(Ts(0, 20, 0, 0), "online", "UserStatusOnline", "telegram"),
      StatusEvent(Ts(0, 21, 0, 0), "offline", "UserStatusOffline", "telegram"),
      StatusEvent(Ts(1, 2, 0, 0), "online", "UserStatusOnline", "telegram"),
      StatusEvent(Ts(1, 2, 44, 0), "offline", "UserStatusOffline", "telegram"),
      StatusEvent(Ts(1, 5, 44, 0), "online", "UserStatusOnline", "telegram")>>

\* one night on Discord: 22:00 -> 07:35 (+1.5)
LogDiscordNight ==
    <<StatusEvent(Ts(0, 21, 0, 0), "online", "DiscordOnline", "discord"),
      StatusEvent(Ts(0, 22, 0, 0), "offline", "DiscordIdle", "discord"),
      StatusEvent(Ts(1, 7, 35, 0), "online", "DiscordOnline", "discord")>>

\* what is stored for a user: the log in arrival order, and how many of its events
\* have had their handler's analyze completed (all of them, or all but the last)
StoredLogsOfUser1 ==
    {[log |-> LogTwoNights, analyzed |-> 4], [log |-> LogAwake44, analyzed |-> 4]}
StoredLogsOfUser2 ==
    {[log |-> <<>>, analyzed |-> 0], [log |-> LogDiscordNight, analyzed |-> 3]}

\* "tracking" sections of config.json
TrackingConfigs ==
    {NoTracking,
     [max_interruption_minutes |-> 30],
     [sleep_threshold_hours |-> 6, min_online_duration_seconds |-> 60,
      assumed_wakeup_hour |-> 8, max_interruption_minutes |-> 60]}

\* the events rows of a user's log
RowsOfLog(user_id, log) == [i \in DOMAIN log |-> EventRow(user_id, log[i])]

RECURSIVE StatusAfter(_, _, _)
\* the users table after append_event stored each event of the log
StatusAfter(users, user_id, log) ==
    IF log = <<>> THEN users
    ELSE StatusAfter(SetSourceStatus(users, user_id, Head(log).source, Head(log).status),
                     user_id, Tail(log))

\* what the analyze run after the k-th event stored
StoredSleep(log, k, config_tracking) ==
    IF k = 0 THEN <<>> ELSE AnalyzeSleepPeriods(SubSeq(log, 1, k), config_tracking)

StoredDaily(log, k, config_tracking) ==
    ComputeDailyTimezones(StoredSleep(log, k, config_tracking))

RECURSIVE StoredOffset(_, _, _)
\* current_tz_offset after the runs of the first k events: the last run that had a
\* daily timezone wrote it
StoredOffset(log, k, config_tracking) ==
    IF k = 0 THEN Null
    ELSE IF StoredDaily(log, k, config_tracking) # <<>>
         THEN Value(LatestOffset(StoredDaily(log, k, config_tracking)))
         ELSE StoredOffset(log, k - 1, config_tracking)

\* the database holding the users' logs and the results of the completed runs
StoredDatabase(stored, config_tracking) ==
    [events |-> RowsOfLog(1, stored[1].log) \o RowsOfLog(2, stored[2].log),
     users |-> [u \in TwoUsers |->
                   [StatusAfter([v \in TwoUsers |-> NewUser], u, stored[u].log)[u]
                       EXCEPT !.current_tz_offset =
                           StoredOffset(stored[u].log, stored[u].analyzed, config_tracking)]],
     sleep |-> [u \in TwoUsers |->
                   StoredSleep(stored[u].log, stored[u].analyzed, config_tracking)],
     daily |-> [u \in TwoUsers |->
                   StoredDaily(stored[u].log, stored[u].analyzed, config_tracking)]]

InitAnalyze ==
    /\ PipelineUnused
    /\ WebUnused
    /\ params \in TrackingConfigs
    /\ \E s1 \in StoredLogsOfUser1, s2 \in StoredLogsOfUser2 :
          LET db == StoredDatabase(<<s1, s2>>, params)
          IN  /\ db_events = db.events
              /\ db_users = db.users
              /\ db_sleep = db.sleep
              /\ db_daily = db.daily
    /\ running = "none"
    /\ pc = [t \in Handlers |-> "idle"]
    /\ job = [t \in Handlers |-> NoJob]
    /\ appends = 0
    /\ response = NoResponse

\* sleep_detector.analyze(internal_uid, self._tracking_config)
CallAnalyze(t) ==
    /\ pc[t] = "idle"
    /\ running = "none"
    /\ \E user_id \in DOMAIN db_users :
          job' = [job EXCEPT ![t] = [NoJob EXCEPT !.user_id = user_id,
                                                  !.before = Before(user_id)]]
    /\ pc' = [pc EXCEPT ![t] = "get_all_events_for_user"]
    /\ running' = t
    /\ response' = NoResponse
    /\ UNCHANGED <<db_events, db_users, db_sleep, db_daily, appends>>
    /\ UNCHANGED pipeVars
    /\ UNCHANGED webVars

NextAnalyze ==
    \/ \E t \in Handlers : CallAnalyze(t)
    \/ \E t \in Handlers : AnalyzeRead(t)
    \/ \E t \in Handlers : DeleteSleepPeriods(t)
    \/ \E t \in Handlers : InsertSleepPeriods(t)
    \/ \E t \in Handlers : DeleteDailyTimezones(t)
    \/ \E t \in Handlers : InsertDailyTimezones(t)
    \/ \E t \in Handlers : FinishAnalyze(t)

SpecAnalyze == InitAnalyze /\ [][NextAnalyze]_vars

-----------------------------------------------------------------------------
(* Properties of analyze (SpecAnalyze) *)

\* a handler's step of analyze moved it on from the statement named
Left(t, statement) == pc[t] = statement /\ pc'[t] # statement

\* C22: when the user has no events, analyze returns normally and performs no
\* persistence write at all, leaving sleep_periods, daily_timezones and
\* current_tz_offset exactly as they were.
C22_EmptyLogNoWrites ==
    [][\A t \in Handlers :
          (Left(t, "get_all_events_for_user") /\ StoredLog(job[t].user_id) = <<>>) =>
              /\ pc'[t] = "idle"
              /\ db_sleep' = db_sleep
              /\ db_daily' = db_daily
              /\ db_users' = db_users]_vars

\* analyze was called for a user without events and has returned, while the other
\* user has stored results
C22_Witness ==
    \E t \in Handlers :
        /\ pc[t] = "idle"
        /\ job[t].user_id = 2
        /\ StoredLog(2) = <<>>
        /\ db_sleep[2] = <<>> /\ db_daily[2] = <<>>
        /\ db_users[2].current_tz_offset = Null
        /\ db_sleep[1] # <<>>

\* the pipeline output when all four settings come from the configuration
ConfiguredSleepPeriods(evs, config_tracking) ==
    DetectSleepPeriods(evs,
                       ConfigGet(config_tracking, "sleep_threshold_hours", DefaultThresholdHours),
                       ConfigGet(config_tracking, "min_online_duration_seconds",
                                 DefaultMinOnlineSeconds),
                       ConfigGet(config_tracking, "assumed_wakeup_hour",
                                 DefaultAssumedWakeupHour),
                       ConfigGet(config_tracking, "max_interruption_minutes",
                                 DefaultMaxInterruptionMinutes))

\* C23: all four tracking settings are consumed from configuration: the sleep
\* periods an analyze run computes are those of the pipeline with threshold,
\* min_online, assumed_wakeup_hour and max_interruption_minutes taken from the
\* tracking configuration (the default only when the key is absent).
C23_AllSettingsFromConfig ==
    \A t \in Handlers :
        pc[t] \in AnalyzeWrites =>
            job[t].sleep_periods = ConfiguredSleepPeriods(job[t].events, params)

\* the part that holds: a run under a configuration that sets the other three
\* settings computes something else than a run under the defaults
C23_ConfiguredReached ==
    \E t \in Handlers :
        /\ pc[t] \in AnalyzeWrites
        /\ "sleep_threshold_hours" \in DOMAIN params
        /\ job[t].sleep_periods # PipelineOf(job[t].events)

\* the entry of a non-empty list of daily timezones that has the latest date
WithLatestDate(daily) ==
    daily[CHOOSE i \in DOMAIN daily : \A j \in DOMAIN daily : daily[j].date <= daily[i].date]

\* C24: after an analyze run that produces at least one DailyTimezone, the user's
\* current_tz_offset equals the offset_hours of the DailyTimezone with the latest
\* date, and of no other entry.
C24_CurrentOffsetIsLatest ==
    [][\A t \in Handlers :
          (Left(t, "update_user_tz") /\ job[t].daily_timezones # <<>>) =>
              /\ pc'[t] = "idle"
              /\ db_daily'[job[t].user_id] = job[t].daily_timezones
              /\ db_users'[job[t].user_id].current_tz_offset
                    = Value(WithLatestDate(job[t].daily_timezones).offset_hours)]_vars

\* a run has stored two daily timezones of different offsets where one was stored
\* before, and the current offset is the one of the later date
C24_Witness ==
    /\ \A t \in Handlers : pc[t] = "idle"
    /\ Len(db_daily[1]) = 2
    /\ db_daily[1][1].date < db_daily[1][2].date
    /\ db_daily[1][1].offset_hours # db_daily[1][2].offset_hours
    /\ db_users[1].current_tz_offset = Value(db_daily[1][2].offset_hours)

\* C28: users are isolated: the statements of analyze for user u, with
\* replace_sleep_periods, replace_daily_timezones and update_user_tz among them,
\* leave the stored sleep periods, daily timezones and current offset of every other
\* user unchanged, in whatever order runs for different users follow one another.
C28_UsersIsolated ==
    [][\A t \in Handlers :
          pc[t] # "idle" =>
              \A u \in DOMAIN db_users \ {job[t].user_id} :
                  /\ db_sleep'[u] = db_sleep[u]
                  /\ db_daily'[u] = db_daily[u]
                  /\ db_users'[u].current_tz_offset = db_users[u].current_tz_offset]_vars

\* a run for user 1 has replaced user 1's rows by others and is about to write the
\* offset, while user 2 has stored results of its own
C28_Witness ==
    \E t \in Handlers :
        /\ pc[t] = "update_user_tz"
        /\ job[t].user_id = 1
        /\ db_sleep[1] # job[t].before.sleep
        /\ db_daily[1] # job[t].before.daily
        /\ db_sleep[2] # <<>>
        /\ db_daily[2] # <<>>
        /\ db_users[2].current_tz_offset # Null
        /\ db_users[2].current_tz_offset # db_users[1].current_tz_offset

-----------------------------------------------------------------------------
(* Properties of the segments the pipeline reports (SpecPipeline) *)

\* the combined stream has an Offline at off_ts and, behind it, an Online at on_ts
OfflineThenOnline(off_ts, on_ts) ==
    \E i, j \in DOMAIN merged :
        /\ i < j
        /\ merged[i].status = "offline" /\ merged[i].timestamp_utc = off_ts
        /\ merged[j].status = "online" /\ merged[j].timestamp_utc = on_ts

\* C25: open-ended sleep is never reported: an Offline event with no later Online
\* event in the stream produces no segment, so every SleepPeriod's online_at is the
\* timestamp of an Online event of the combined stream and its offline_at the
\* timestamp of an Offline event of the combined stream preceding it.
C25_NoOpenEndedSleep ==
    phase = "done" =>
        /\ \A k \in DOMAIN stages.raw_periods :
              OfflineThenOnline(stages.raw_periods[k].start_ts, stages.raw_periods[k].end_ts)
        /\ \A k \in DOMAIN sleep_periods :
              OfflineThenOnline(sleep_periods[k].offline_at_utc,
                                sleep_periods[k].online_at_utc)
        /\ (merged # <<>> /\ Last(merged).status = "offline") =>
              /\ \A k \in DOMAIN stages.raw_periods :
                    stages.raw_periods[k].start_ts # Last(merged).timestamp_utc
              /\ \A k \in DOMAIN sleep_periods :
                    sleep_periods[k].offline_at_utc # Last(merged).timestamp_utc

\* a night was reported and the stream ends with an Offline, more than the
\* threshold before the end of the timeline, that no Online follows
C25_Witness ==
    /\ phase = "done"
    /\ Len(sleep_periods) = 1
    /\ Last(merged).status = "offline"
    /\ Last(events).status = "offline"
    /\ SecondsBetween(Last(merged).timestamp_utc, Last(timeline))
          >= params.threshold_hours * 3600

-----------------------------------------------------------------------------
(* Calls of the pipeline at the edges of its settings: events that share a
   timestamp, a threshold of 0, 1 or 2 hours, min_online_seconds of -5, 0 or 30 *)

\* 00:00, 01:00 twice, 02:00, 03:00 twice
TimelineEqual ==
    <<Ts(0, 0, 0, 0), Ts(0, 1, 0, 0), Ts(0, 1, 0, 0), Ts(0, 2, 0, 0), Ts(0, 3, 0, 0),
      Ts(0, 3, 0, 0)>>

EdgeThresholds == {0, 1, 2}
EdgeMinOnlineSeconds == {-5, 0, DefaultMinOnlineSeconds}

EdgeParams ==
    {[DefaultParams EXCEPT !.threshold_hours = th, !.min_online_seconds = mo] :
        th \in EdgeThresholds, mo \in EdgeMinOnlineSeconds}

InitEdge ==
    /\ timeline = TimelineEqual
    /\ params \in EdgeParams
    /\ cursor = 0
    /\ events = <<>>
    /\ phase = "input"
    /\ merged = <<>>
    /\ stages = NoStages
    /\ sleep_periods = <<>>
    /\ daily_timezones = <<>>
    /\ OffsetUnused
    /\ ScanUnused
    /\ SysIdle
    /\ WebUnused

SpecEdge == InitEdge /\ [][NextPipeline]_vars

-----------------------------------------------------------------------------
(* Properties of the pipeline at the edges of its settings (SpecEdge) *)

\* C26: for every input event sequence and every positive threshold_hours, each
\* SleepPeriod produced has online_at strictly later than offline_at.
C26_OnlineAfterOffline ==
    (phase = "done" /\ params.threshold_hours > 0) =>
        \A k \in DOMAIN sleep_periods :
            /\ TsLess(sleep_periods[k].offline_at_utc, sleep_periods[k].online_at_utc)
            /\ ParseTs(sleep_periods[k].offline_at_utc)
                  < ParseTs(sleep_periods[k].online_at_utc)

\* under a positive threshold a period was reported from a log that also holds an
\* offline segment of no length (Offline and Online with one timestamp)
C26_Witness ==
    /\ phase = "done"
    /\ params.threshold_hours > 0
    /\ sleep_periods # <<>>
    /\ \E k \in DOMAIN stages.raw_periods : stages.raw_periods[k].duration = 0

\* under a threshold of 0 the segment of no length is reported: online_at equals
\* offline_at, which is why the claim asks for a positive threshold
C26_ZeroThresholdReached ==
    /\ phase = "done"
    /\ params.threshold_hours = 0
    /\ \E k \in DOMAIN sleep_periods :
          sleep_periods[k].offline_at_utc = sleep_periods[k].online_at_utc

\* C29: with min_online_seconds <= 0 the noise filter drops nothing: the output of
\* _filter_network_noise equals the merged alternating stream it scans, event for
\* event, even when an Online and the following Offline carry the same timestamp.
C29_NoFilterAtZero ==
    (phase = "done" /\ params.min_online_seconds <= 0) =>
        /\ FilterNetworkNoise(events, params.min_online_seconds) = merged
        /\ stages.cleaned = merged

\* min_online_seconds is 0 and the merged stream holds an Online and, right behind
\* it, an Offline with the same timestamp; both are in the filter's output
C29_Witness ==
    /\ phase = "done"
    /\ params.min_online_seconds = 0
    /\ \E i \in 1..(Len(merged) - 1) :
          /\ merged[i].status = "online"
          /\ merged[i + 1].status = "offline"
          /\ merged[i].timestamp_utc = merged[i + 1].timestamp_utc
          /\ stages.cleaned[i] = merged[i]
          /\ stages.cleaned[i + 1] = merged[i + 1]

\* with the default of 30 seconds such a pair is dropped
C29_DefaultDropsReached ==
    /\ phase = "done"
    /\ params.min_online_seconds = DefaultMinOnlineSeconds
    /\ Len(stages.cleaned) < Len(merged)

-----------------------------------------------------------------------------
(* Properties of what analyze writes in the running program (Spec) *)

\* the status columns of the users table
StatusColumns(users) ==
    [u \in DOMAIN users |->
        <<users[u].telegram_status, users[u].discord_status, users[u].current_status>>]

\* the derived data: the two tables and the users' current_tz_offset
Derived(sleep, daily, users) ==
    <<sleep, daily, [u \in DOMAIN users |-> users[u].current_tz_offset]>>

\* C27: the pipeline only reads the event log: no step of an analyze run inserts,
\* updates or deletes an event, nor changes a user's telegram_status,
\* discord_status or current_status; its only writes are the two derived tables
\* and current_tz_offset, performed after all stages have finished, from their
\* results.
C27_AnalyzeOnlyWritesDerived ==
    [][\A t \in Handlers :
          pc[t] # "idle" =>
              /\ db_events' = db_events
              /\ StatusColumns(db_users') = StatusColumns(db_users)
              /\ Derived(db_sleep', db_daily', db_users') # Derived(db_sleep, db_daily, db_users)
                    => /\ pc[t] \in AnalyzeWrites
                       /\ job[t].sleep_periods = AnalyzeSleepPeriods(job[t].events, params)
                       /\ job[t].daily_timezones
                             = ComputeDailyTimezones(job[t].sleep_periods)]_vars

\* a run has stored a night where none was stored and is about to write the
\* offset; the log is the one it read and the user's status is still online
C27_Witness ==
    \E t \in Handlers :
        /\ pc[t] = "update_user_tz"
        /\ job[t].sleep_periods # <<>>
        /\ job[t].before.sleep = <<>>
        /\ db_sleep[job[t].user_id] = job[t].sleep_periods
        /\ db_daily[job[t].user_id] = job[t].daily_timezones
        /\ StoredLog(job[t].user_id) = job[t].events
        /\ db_users[job[t].user_id].current_status = Value("online")
        /\ db_users[job[t].user_id].current_tz_offset = Null

-----------------------------------------------------------------------------
(* One call of the pipeline with the while loop of _filter_network_noise taken
   one iteration at a time (i counts from 1 here, from 0 in the code) *)

InitScan ==
    /\ timeline = TimelineNight
    /\ params = DefaultParams
    /\ cursor = 0
    /\ events = <<>>
    /\ phase = "input"
    /\ merged = <<>>
    /\ stages = NoStages
    /\ sleep_periods = <<>>
    /\ daily_timezones = <<>>
    /\ OffsetUnused
    /\ ScanUnused
    /\ SysIdle
    /\ WebUnused

\* sorted_events = _merge_sources(events); filtered = []; i = 0
StartScan ==
    /\ phase = "input"
    /\ phase' = "scan"
    /\ merged' = MergeSources(events)
    /\ scan' = [sorted_events |-> MergeSources(events), i |-> 1, filtered |-> <<>>]
    /\ UNCHANGED <<timeline, cursor, events, params, stages, sleep_periods, daily_timezones,
                   wakeup_time, tz_offset>>
    /\ UNCHANGED sysVars
    /\ UNCHANGED webVars

\* one iteration of "while i < len(sorted_events)"
ScanStep ==
    /\ phase = "scan"
    /\ scan.i <= Len(scan.sorted_events)
    /\ LET blip == ScanBlip(scan.sorted_events, scan.i, params.min_online_seconds)
       IN  scan' = [scan EXCEPT !.i = @ + ScanAdvance(blip),
                                !.filtered = IF blip THEN @
                                             ELSE Append(@, scan.sorted_events[scan.i])]
    /\ UNCHANGED <<timeline, cursor, events, params, phase, merged, stages, sleep_periods,
                   daily_timezones, wakeup_time, tz_offset>>
    /\ UNCHANGED sysVars
    /\ UNCHANGED webVars

\* the loop is left, filtered is returned, and the passes behind it run: _dedup, the
\* loops of steps 2, 3 and 4 and _compute_daily_timezones, each a "for" over a list
\* it does not change
EndScan ==
    /\ phase = "scan"
    /\ scan.i > Len(scan.sorted_events)
    /\ phase' = "done"
    /\ stages' = Stages(events, params)
    /\ LET periods == DetectSleepPeriods(events, params.threshold_hours,
                                         params.min_online_seconds,
                                         params.assumed_wakeup_hour,
                                         params.max_interruption_minutes)
       IN  /\ sleep_periods' = periods
           /\ daily_timezones' = ComputeDailyTimezones(periods)
    /\ UNCHANGED <<timeline, cursor, events, params, merged, wakeup_time, tz_offset, scan>>
    /\ UNCHANGED sysVars
    /\ UNCHANGED webVars

NextScan == AppendInput \/ StartScan \/ ScanStep \/ EndScan

\* EndScan as far as phase is concerned; it is enabled exactly when EndScan is
ScanReturns ==
    /\ phase = "scan"
    /\ scan.i > Len(scan.sorted_events)
    /\ phase' = "done"

\* a call that has begun its scan goes on executing its statements: the next
\* iteration of the loop, and the rest of the function once the loop is left
SpecScan ==
    InitScan /\ [][NextScan]_vars /\ WF_vars(ScanStep) /\ WF_phase(ScanReturns)

-----------------------------------------------------------------------------
(* Properties of the stepped pipeline (SpecScan) *)

\* C30: the pipeline terminates on every finite event list: each iteration of the
\* noise-filter scan advances its index by 1 or 2 and never moves it back, the
\* scan ends with the output of _filter_network_noise, and the single passes
\* behind it complete, so a call that has begun its scan reaches its return.
C30_PipelineTerminates ==
    /\ [][phase = "scan" =>
            /\ scan'.i - scan.i \in {0, 1, 2}
            /\ (scan'.i = scan.i => phase' = "done")
            /\ scan'.i <= Len(scan.sorted_events) + 1]_vars
    /\ [](phase = "done" =>
            scan.filtered = FilterNetworkNoise(events, params.min_online_seconds))
    /\ (phase = "scan" ~> phase = "done")

\* a call has returned whose scan skipped a blip (two events in one iteration) and
\* kept other events (one per iteration)
C30_Witness ==
    /\ phase = "done"
    /\ Len(scan.sorted_events) = 5
    /\ Len(scan.filtered) = 3
    /\ scan.i = 6
    /\ sleep_periods # <<>>

-----------------------------------------------------------------------------
(* The offline baseline of _merge_sources (SpecPipeline) *)

\* events 1 .. i of the log are all Offline: event i precedes the first Online
BeforeFirstOnline(evs, i) == \A j \in 1..i : evs[j].status = "offline"

\* C31: the first event of a non-empty _merge_sources output is online; every
\* Offline that precedes the first Online of the log is discarded, so no offline
\* segment and no SleepPeriod begins at such an event: every segment and every
\* period begins after the first Online of the log.
C31_LeadingOfflineDiscarded ==
    phase = "done" =>
        /\ merged # <<>> => merged[1].status = "online"
        /\ \A i \in DOMAIN events :
              BeforeFirstOnline(events, i) =>
                  /\ \A k \in DOMAIN merged :
                        TsLess(events[i].timestamp_utc, merged[k].timestamp_utc)
                  /\ \A k \in DOMAIN stages.cleaned :
                        TsLess(events[i].timestamp_utc, stages.cleaned[k].timestamp_utc)
                  /\ \A k \in DOMAIN stages.raw_periods :
                        TsLess(events[i].timestamp_utc, stages.raw_periods[k].start_ts)
                  /\ \A k \in DOMAIN sleep_periods :
                        TsLess(events[i].timestamp_utc, sleep_periods[k].offline_at_utc)

\* a log that opens with an Offline followed, more than the threshold later, by the
\* first Online: the span is not reported, the merged stream starts at the Online
C31_Witness ==
    /\ phase = "done"
    /\ Len(events) >= 2
    /\ events[1].status = "offline"
    /\ events[2].status = "online"
    /\ SecondsBetween(events[1].timestamp_utc, events[2].timestamp_utc)
          > DefaultThresholdHours * 3600
    /\ merged # <<>>
    /\ merged[1].timestamp_utc = events[2].timestamp_utc
    /\ sleep_periods = <<>>

-----------------------------------------------------------------------------
(* Calls of the pipeline on logs long enough for three offline spans, under
   several values of max_interruption_minutes and threshold_hours *)

\* offline spans of 4 h, 2 h 15 min and 4 h 14 min with 45 and 46 minutes awake
\* between them
TimelineSpans ==
    <<Ts(0, 20, 0, 0), Ts(0, 21, 0, 0), Ts(1, 1, 0, 0), Ts(1, 1, 45, 0), Ts(1, 4, 0, 0),
      Ts(1, 4, 46, 0), Ts(1, 9, 0, 0), Ts(1, 9, 30, 0)>>

SpanThresholds == {2, DefaultThresholdHours}
SpanInterruptionMinutes == {0, DefaultMaxInterruptionMinutes, 46}

SpanParams ==
    {[DefaultParams EXCEPT !.threshold_hours = th, !.max_interruption_minutes = mi] :
        th \in SpanThresholds, mi \in SpanInterruptionMinutes}

InitSpans ==
    /\ timeline = TimelineSpans
    /\ params \in SpanParams
    /\ cursor = 0
    /\ events = <<>>
    /\ phase = "input"
    /\ merged = <<>>
    /\ stages = NoStages
    /\ sleep_periods = <<>>
    /\ daily_timezones = <<>>
    /\ OffsetUnused
    /\ ScanUnused
    /\ SysIdle
    /\ WebUnused

\* the caller puts the next event of the one tracked source, later on the timeline,
\* into the list
AppendOneSource ==
    /\ phase = "input"
    /\ Len(events) < MaxSpanEvents
    /\ \E j \in (cursor + 1)..Len(timeline), status \in Statuses :
          /\ events' = Append(events, StatusEvent(timeline[j], status,
                                                 RawType("telegram", status), "telegram"))
          /\ cursor' = j
    /\ UNCHANGED <<timeline, params, phase, merged, stages, sleep_periods, daily_timezones, wakeup_time, tz_offset, scan>>
    /\ UNCHANGED sysVars
    /\ UNCHANGED webVars

NextSpans == AppendOneSource \/ RunPipeline

SpecSpans == InitSpans /\ [][NextSpans]_vars

-----------------------------------------------------------------------------
(* Properties of the reported periods as a list (SpecSpans) *)

C32_DroppedBetweenReached ==
    /\ phase = "done"
    /\ Len(stages.merged_periods) = 3
    /\ Len(sleep_periods) = 2
    /\ sleep_periods[1].online_at_utc = stages.merged_periods[1].end_ts
    /\ sleep_periods[2].offline_at_utc = stages.merged_periods[3].start_ts

-----------------------------------------------------------------------------
(* Runs of one status in the stored log (Spec) *)

\* the ids (positions) of the rows of one user and one source in an events table
SourceIds(rows, user_id, source) ==
    {i \in DOMAIN rows : rows[i].user_id = user_id /\ rows[i].source = source}

\* the per-source status column of a users row
SourceStatus(users, user_id, source) ==
    IF source = "telegram" THEN users[user_id].telegram_status
    ELSE users[user_id].discord_status

\* the source's last two rows both carry the status of the event the handler t has
\* just passed to append_event: the event is the third or a later one of its run
ThirdOfRun(t) ==
    LET user_id == job'[t].user_id
        ids == SourceIds(db_events, user_id, SourceOf(t))
    IN  /\ Cardinality(ids) >= 2
        /\ Value(db_events[MaxOf(ids)].status) = SourceStatus(db_users', user_id, SourceOf(t))
        /\ db_events[MaxOf(ids \ {MaxOf(ids)})].status = db_events[MaxOf(ids)].status

\* C33: a run of identical statuses of one source occupies at most two stored
\* rows; the third and every later event of the run inserts no row and only
\* overwrites the timestamp and raw type of the run's last row, every other row
\* (the first row of the run included) keeps what it holds; any other event is
\* inserted as a new row.
C33_RunKeepsFirstAndLast ==
    /\ [](\A user_id \in Users, source \in Sources :
            \A i \in 1..(Len(RowsOf(user_id, source)) - 2) :
                ~ /\ RowsOf(user_id, source)[i].status = RowsOf(user_id, source)[i + 1].status
                  /\ RowsOf(user_id, source)[i].status = RowsOf(user_id, source)[i + 2].status)
    /\ [][\A t \in Handlers :
            (pc[t] = "idle" /\ pc'[t] = "get_all_events_for_user") =>
                IF ThirdOfRun(t)
                THEN LET last_id == MaxOf(SourceIds(db_events, job'[t].user_id, SourceOf(t)))
                     IN  /\ Len(db_events') = Len(db_events)
                         /\ \A i \in DOMAIN db_events \ {last_id} :
                               db_events'[i] = db_events[i]
                         /\ db_events'[last_id].user_id = db_events[last_id].user_id
                         /\ db_events'[last_id].source = db_events[last_id].source
                         /\ db_events'[last_id].status = db_events[last_id].status
                         /\ db_events'[last_id].timestamp_utc \in WallClock
                ELSE /\ Len(db_events') = Len(db_events) + 1
                     /\ \A i \in DOMAIN db_events : db_events'[i] = db_events[i]
                     /\ Last(db_events').source = SourceOf(t)
                     /\ Value(Last(db_events').status)
                           = SourceStatus(db_users', job'[t].user_id, SourceOf(t))]_vars

\* three more online events of Telegram arrived after the stored online of 06:05:
\* the run of four events holds two rows, the first still stamped 06:05, the second
\* overwritten twice
C33_Witness ==
    /\ appends = 3
    /\ Len(db_events) = 4
    /\ db_events[3].status = "online" /\ db_events[4].status = "online"
    /\ db_events[3].source = "telegram" /\ db_events[4].source = "telegram"
    /\ db_events[3].timestamp_utc = Ts(1, 6, 5, 0)
    /\ db_events[4].timestamp_utc = Ts(0, 22, 0, 0)

-----------------------------------------------------------------------------
(* Alternation behind the noise filter (SpecPipeline) *)

\* the events of s at the positions of the set K, in order
Keep(s, K) == [k \in 1..Cardinality(K) |-> s[KthOf(K, k)]]

\* the set D of positions of s is made of pairs (an Online, the Offline right after it)
OnlineOfflinePairs(s, D) ==
    \A i \in D :
        \/ s[i].status = "online" /\ i + 1 \in D /\ s[i + 1].status = "offline"
        \/ s[i].status = "offline" /\ i - 1 \in D /\ s[i - 1].status = "online"

\* C34: for every input the output of _filter_network_noise has no two consecutive
\* events with the same status: it is the merged stream without some pairs of an
\* Online and the Offline right after it, so the _dedup pass applied afterwards in
\* _detect_sleep_periods removes no event.
C34_FilterKeepsAlternation ==
    phase = "done" =>
        LET filtered == FilterNetworkNoise(events, params.min_online_seconds)
        IN  /\ \A i \in 1..(Len(filtered) - 1) : filtered[i].status # filtered[i + 1].status
            /\ \E D \in SUBSET DOMAIN merged :
                  /\ OnlineOfflinePairs(merged, D)
                  /\ filtered = Keep(merged, DOMAIN merged \ D)
            /\ Dedup(filtered) = filtered
            /\ stages.cleaned = filtered

\* a short Online and the Offline behind it were dropped from the middle of a
\* merged stream of five events: the Offline before the pair is now followed by
\* the Online behind it
C34_Witness ==
    /\ phase = "done"
    /\ Len(merged) = 5
    /\ Len(stages.cleaned) = 3
    /\ stages.cleaned = <<merged[1], merged[2], merged[5]>>
    /\ merged[3].status = "online"
    /\ merged[4].status = "offline"

-----------------------------------------------------------------------------
(* A run of analyze that finds no sleep period (Spec) *)

\* C35: when analyze runs on a non-empty event log that yields no sleep period, the
\* user's sleep_periods and daily_timezones end up empty (the results of earlier
\* runs are deleted) while current_tz_offset keeps the value an earlier run wrote.
C35_NoPeriodClearsResultsKeepsOffset ==
    [][\A t \in Handlers :
          ( /\ pc[t] = "update_user_tz"
            /\ pc'[t] = "idle"
            /\ StoredLog(job[t].user_id) # <<>>
            /\ AnalyzeSleepPeriods(StoredLog(job[t].user_id), params) = <<>> )
          => /\ db_sleep'[job[t].user_id] = <<>>
             /\ db_daily'[job[t].user_id] = <<>>
             /\ db_users'[job[t].user_id].current_tz_offset = job[t].before.offset]_vars

\* the user of the stored night was then seen online on Discord from 21:00 on: the
\* run on the four events found no period, the stored period and daily timezone
\* are gone and current_tz_offset still holds the +3.0 of the earlier run
C35_Witness ==
    /\ \A t \in Handlers : pc[t] = "idle"
    /\ Len(StoredLog(1)) = 4
    /\ db_sleep[1] = <<>>
    /\ db_daily[1] = <<>>
    /\ db_users[1].current_tz_offset = Value(6)

-----------------------------------------------------------------------------
(* Calls of storage.append_event and storage.update_user_status made one after
   the other on the users ensure_user created *)

\* the task that makes the storage calls
StatusCallers == {"storage_caller"}

\* the timestamp of the events passed to append_event
StatusClock == {Ts(0, 21, 0, 0)}

\* the caller's locals: the call it made last and, for each user and source, the
\* status of the last call made for that source (NULL: no call yet)
NoCall ==
    [function |-> "none", user_id |-> 0, status |-> "none", source |-> "none",
     reported |-> [u \in Users |-> [s \in Sources |-> Null]]]

\* the locals after the call function(user_id, status, source)
Called(locals, function, user_id, status, source) ==
    [function |-> function, user_id |-> user_id, status |-> status, source |-> source,
     reported |-> [locals.reported EXCEPT ![user_id][source] = Value(status)]]

InitStatus ==
    /\ PipelineUnused
    /\ WebUnused
    /\ params = NoTracking
    /\ db_events = FreshDatabase.events
    /\ db_users = FreshDatabase.users
    /\ db_sleep = FreshDatabase.sleep
    /\ db_daily = FreshDatabase.daily
    /\ running = "none"
    /\ pc = [t \in StatusCallers |-> "idle"]
    /\ job = [t \in StatusCallers |-> NoCall]
    /\ appends = 0
    /\ response = NoResponse

\* storage.append_event(user_id, StatusEvent(timestamp_utc, status, raw, source))
CallAppendEvent(t) ==
    /\ appends < MaxAppends
    /\ \E user_id \in Users, source \in Sources, status \in Statuses, ts \in StatusClock :
          LET event == StatusEvent(ts, status, RawType(source, status), source)
          IN  /\ db_events' = AppendEventRows(db_events, user_id, event)
              /\ db_users' = SetSourceStatus(db_users, user_id, event.source, event.status)
              /\ job' = [job EXCEPT ![t] = Called(job[t], "append_event", user_id,
                                                  status, source)]
    /\ appends' = appends + 1
    /\ UNCHANGED <<db_sleep, db_daily, running, pc, response>>
    /\ UNCHANGED pipeVars
    /\ UNCHANGED webVars

\* storage.update_user_status(user_id, status, source)
CallUpdateUserStatus(t) ==
    /\ \E user_id \in Users, source \in Sources, status \in Statuses :
          /\ db_users' = UpdateUserStatus(db_users, user_id, status, source)
          /\ job' = [job EXCEPT ![t] = Called(job[t], "update_user_status", user_id,
                                              status, source)]
    /\ UNCHANGED <<db_events, db_sleep, db_daily, running, pc, appends, response>>
    /\ UNCHANGED pipeVars
    /\ UNCHANGED webVars

NextStatus ==
    \/ \E t \in StatusCallers : CallAppendEvent(t)
    \/ \E t \in StatusCallers : CallUpdateUserStatus(t)

SpecStatus == InitStatus /\ [][NextStatus]_vars

-----------------------------------------------------------------------------
(* Properties of the status columns (SpecStatus) *)

\* C36: after any sequence of append_event and update_user_status calls for a
\* user, each per-source status column holds the status of the last call made
\* for that source (NULL when the source has never reported), and current_status
\* is online exactly when telegram_status or discord_status is online and offline
\* otherwise.
C36_CurrentStatusIsOr ==
    \A t \in StatusCallers, user_id \in Users :
        LET reported == job[t].reported[user_id]
        IN  (\E s \in Sources : reported[s] # Null) =>
                /\ db_users[user_id].telegram_status = reported["telegram"]
                /\ db_users[user_id].discord_status = reported["discord"]
                /\ db_users[user_id].current_status
                      = Value(IF \E s \in Sources : reported[s] = Value("online")
                              THEN "online" ELSE "offline")

\* Telegram reported offline through update_user_status and Discord has never
\* reported: current_status is offline
C36_Witness ==
    \E t \in StatusCallers :
        /\ job[t].function = "update_user_status"
        /\ job[t].reported[1]["telegram"] = Value("offline")
        /\ job[t].reported[1]["discord"] = Null
        /\ db_users[1].current_status = Value("offline")

\* Telegram was last reported online, then append_event stored a Discord offline:
\* current_status stays online
C36_OnlineKeptReached ==
    \E t \in StatusCallers :
        /\ job[t].function = "append_event"
        /\ job[t].source = "discord"
        /\ job[t].status = "offline"
        /\ job[t].reported[1]["telegram"] = Value("online")
        /\ db_users[1].current_status = Value("online")

-----------------------------------------------------------------------------
(* web/security.py: RateLimitMiddleware *)

\* time.time() is kept in ticks; TicksPerSecond of them make a second
TicksPerSecond == 2

\* cutoff_minute = current_time - 60
MinuteWindowSeconds == 60
\* cutoff_second = current_time - 1
SecondWindowSeconds == 1
\* if current_time - self.last_cleanup > 300
CleanupIntervalSeconds == 300

\* "/api/"
ApiPrefix == <<"/", "a", "p", "i", "/">>

\* str.startswith
StartsWith(path, prefix) ==
    Len(path) >= Len(prefix) /\ SubSeq(path, 1, Len(prefix)) = prefix

RECURSIVE StripLeft(_)
StripLeft(s) == IF s # <<>> /\ Head(s) = " " THEN StripLeft(Tail(s)) ELSE s

RECURSIVE StripRight(_)
StripRight(s) ==
    IF s # <<>> /\ Last(s) = " " THEN StripRight(SubSeq(s, 1, Len(s) - 1)) ELSE s

\* str.strip
Strip(s) == StripRight(StripLeft(s))

\* _get_client_ip: the first item of X-Forwarded-For, else X-Real-IP, else the
\* peer's host, else "unknown".  A header is NULL or its value; the value of
\* X-Forwarded-For is the list of its comma-separated items, an item and an
\* address being a sequence of tokens.
GetClientIp(request) ==
    IF request.forwarded # Null /\ request.forwarded # Value(<<>>)
    THEN Strip(Head(CHOOSE items \in request.forwarded : TRUE))
    ELSE IF request.real_ip # Null /\ request.real_ip # Value(<<>>)
         THEN CHOOSE ip \in request.real_ip : TRUE
         ELSE IF request.client # Null
              THEN CHOOSE host \in request.client : TRUE
              ELSE <<"unknown">>

\* [ts for ts in history if ts > cutoff]
Newer(history, cutoff) == SelectSeq(history, LAMBDA ts : ts > cutoff)

\* self.request_history[client_ip] of a defaultdict(list): a missing key reads as []
HistoryOf(request_history, client_ip) ==
    IF client_ip \in DOMAIN request_history THEN request_history[client_ip] ELSE <<>>

\* request_history[client_ip] = history (the key is created if it is missing)
SetHistory(request_history, client_ip, history) ==
    [ip \in (DOMAIN request_history) \cup {client_ip} |->
        IF ip = client_ip THEN history ELSE request_history[ip]]

\* _cleanup_old_entries: every history loses its entries of a minute ago and
\* older, and a key whose history is left empty is deleted
CleanupOldEntries(request_history, current_time) ==
    LET cutoff == current_time - MinuteWindowSeconds * TicksPerSecond
        left == {ip \in DOMAIN request_history : Newer(request_history[ip], cutoff) # <<>>}
    IN  [ip \in left |-> Newer(request_history[ip], cutoff)]

\* the two checks with ">" where the code says ">=": one request more is let through
LimitsExceededStrict(self, recent_requests, current_time) ==
    \/ Len(recent_requests) > self.requests_per_minute
    \/ Len(Newer(recent_requests, current_time - SecondWindowSeconds * TicksPerSecond))
          > self.requests_per_second

\* _is_rate_limited, its result: the per-minute check on recent_requests, then the
\* per-second check on last_second_requests
LimitsExceeded(self, recent_requests, current_time) ==
    \/ Len(recent_requests) >= self.requests_per_minute
    \/ Len(Newer(recent_requests, current_time - SecondWindowSeconds * TicksPerSecond))
          >= self.requests_per_second

-----------------------------------------------------------------------------
(* Requests dispatched through the rate limiter *)

\* the peers and addresses of the requests
HostA == <<"10.0.0.1">>
HostB == <<"10.0.0.2">>

\* GET /api/u from host A; GET /api/u for host B forwarded by host A
\* ("X-Forwarded-For: 10.0.0.2, 10.0.0.1"); GET /api (no trailing slash) with
\* X-Real-IP of host B; GET / from a peer that is not known
Requests ==
    {[path |-> <<"/", "a", "p", "i", "/", "u">>,
      forwarded |-> Null, real_ip |-> Null, client |-> Value(HostA)],
     [path |-> <<"/", "a", "p", "i", "/", "u">>,
      forwarded |-> Value(<<HostB, <<" ">> \o HostA>>), real_ip |-> Null,
      client |-> Value(HostA)],
     [path |-> <<"/", "a", "p", "i">>,
      forwarded |-> Null, real_ip |-> Value(HostB), client |-> Value(HostA)],
     [path |-> <<"/">>,
      forwarded |-> Null, real_ip |-> Null, client |-> Null]}

ClientIps == {GetClientIp(request) : request \in Requests}

\* how far time.time() has moved on since the request before: not at all, half a
\* second, the second window, one second less than the minute window, one second
\* more than the cleanup interval
ClockSteps ==
    {0, 1, SecondWindowSeconds * TicksPerSecond,
     (MinuteWindowSeconds - 1) * TicksPerSecond,
     (CleanupIntervalSeconds + 1) * TicksPerSecond}

\* requests_per_minute, requests_per_second given to the constructor
LimitSettings == {<<3, 2>>, <<2, 1>>}

NoOutcome == [client_ip |-> <<>>, path |-> <<>>, api |-> FALSE, limited |-> FALSE]

\* __init__: the settings, an empty request_history, last_cleanup = time.time()
InitRate ==
    /\ PipelineUnused
    /\ params = NoTracking
    /\ SysIdle
    /\ \E setting \in LimitSettings :
          limiter = [requests_per_minute |-> setting[1],
                     requests_per_second |-> setting[2],
                     request_history |-> <<>>,
                     last_cleanup |-> 0]
    /\ clock = 0
    /\ served = [ip \in ClientIps |-> <<>>]
    /\ outcome = NoOutcome
    /\ requests = 0

\* dispatch: a request outside /api/ goes to call_next at once; for one inside,
\* the cleanup when it is due, _is_rate_limited (which stores the pruned history),
\* then HTTPException(429) or the request recorded and handed to call_next
Dispatch ==
    /\ \E request \in Requests :
          IF ~StartsWith(request.path, ApiPrefix)
          THEN /\ outcome' = [client_ip |-> <<>>, path |-> request.path,
                              api |-> FALSE, limited |-> FALSE]
               /\ UNCHANGED <<limiter, clock, served, requests>>
          ELSE /\ requests < MaxRequests
               /\ \E step \in ClockSteps :
                     LET client_ip == GetClientIp(request)
                         current_time == clock + step
                         due == current_time - limiter.last_cleanup
                                   > CleanupIntervalSeconds * TicksPerSecond
                         cleaned == IF due
                                    THEN CleanupOldEntries(limiter.request_history,
                                                           current_time)
                                    ELSE limiter.request_history
                         recent_requests ==
                             Newer(HistoryOf(cleaned, client_ip),
                                   current_time - MinuteWindowSeconds * TicksPerSecond)
                         limited == LimitsExceeded(limiter, recent_requests, current_time)
                     IN  /\ clock' = current_time
                         /\ limiter' =
                               [limiter EXCEPT
                                  !.last_cleanup = IF due THEN current_time ELSE @,
                                  !.request_history =
                                      SetHistory(cleaned, client_ip,
                                                 IF limited THEN recent_requests
                                                 ELSE Append(recent_requests, current_time))]
                         /\ served' = IF limited THEN served
                                      ELSE [served EXCEPT ![client_ip] =
                                                Append(@, current_time)]
                         /\ outcome' = [client_ip |-> client_ip, path |-> request.path,
                                        api |-> TRUE, limited |-> limited]
               /\ requests' = requests + 1
    /\ UNCHANGED pipeVars
    /\ UNCHANGED sysVars

NextRate == Dispatch

SpecRate == InitRate /\ [][NextRate]_vars

-----------------------------------------------------------------------------
(* Properties of the rate limiter (SpecRate) *)

\* how many of the times lie in the half-open window (t - width, t]
InWindow(times, t, width) ==
    Cardinality({k \in DOMAIN times : t - width < times[k] /\ times[k] <= t})

\* The ends of the windows looked at: the time of each request let through and the
\* current time.  A window that ends between two such requests holds no request
\* that the window ending at the earlier one does not hold.
WindowEnds(ip) == {served[ip][k] : k \in DOMAIN served[ip]} \cup {clock}

\* C37: for each client IP and any sequence of /api/ requests at non-decreasing
\* times, the requests let through number at most requests_per_minute in any
\* window (t-60s, t] and at most requests_per_second in any window (t-1s, t]; a
\* rejected request is not recorded; a request to a path outside /api/ is never
\* limited nor counted.
C37_SlidingWindowLimit ==
    /\ [](\A ip \in DOMAIN served :
            \A t \in WindowEnds(ip) :
                /\ InWindow(served[ip], t, MinuteWindowSeconds * TicksPerSecond)
                      <= limiter.requests_per_minute
                /\ InWindow(served[ip], t, SecondWindowSeconds * TicksPerSecond)
                      <= limiter.requests_per_second)
    /\ [][/\ (outcome'.api /\ outcome'.limited) =>
                /\ served' = served
                /\ Len(HistoryOf(limiter'.request_history, outcome'.client_ip))
                      <= Len(HistoryOf(limiter.request_history, outcome'.client_ip))
                /\ \A k \in DOMAIN HistoryOf(limiter'.request_history, outcome'.client_ip) :
                      \E j \in DOMAIN HistoryOf(limiter.request_history, outcome'.client_ip) :
                          HistoryOf(limiter'.request_history, outcome'.client_ip)[k]
                             = HistoryOf(limiter.request_history, outcome'.client_ip)[j]
          /\ (outcome'.api /\ ~outcome'.limited) =>
                /\ Last(served'[outcome'.client_ip]) = clock'
                /\ Last(limiter'.request_history[outcome'.client_ip]) = clock'
          /\ ~outcome'.api =>
                /\ ~outcome'.limited
                /\ limiter' = limiter
                /\ served' = served
                /\ requests' = requests]_vars

\* under 2 per minute and 1 per second host A made four /api/ requests: three were
\* let through, so one was rejected and a later one, the minute window having
\* moved on, was let through again
C37_Witness ==
    /\ requests = 4
    /\ limiter.requests_per_minute = 2
    /\ Len(served[HostA]) = 3
    /\ served[HostB] = <<>>
    /\ outcome.api /\ ~outcome.limited
    /\ clock < CleanupIntervalSeconds * TicksPerSecond

\* a request was rejected on the per-second limit alone
C37_SecondLimitReached ==
    /\ outcome.api /\ outcome.limited
    /\ Len(HistoryOf(limiter.request_history, outcome.client_ip))
          < limiter.requests_per_minute

\* the cleanup has deleted the key of a client whose history was a minute old
C37_CleanupReached ==
    /\ served[HostB] # <<>>
    /\ HostB \notin DOMAIN limiter.request_history

====
